---- MODULE Spec2Model ----
(***************************************************************************)
(* Model of the personal finance tracker (controle-financeiro).            *)
(*                                                                         *)
(* ControleFinanceiro (planilha_financeira.py) keeps five pandas tables in *)
(* memory (receitas, gastos, investimentos, cartao, orcamento), persists   *)
(* them as CSV files and exchanges them with an Excel workbook             *)
(* (planilha_financeira_excel.py).  The Streamlit front end                *)
(* (gui_financeira_streamlit.py) calls the class from form handlers.       *)
(*                                                                         *)
(* Amounts are Python floats.  A float is modelled as a pair <<m, e>>      *)
(* standing for m * 2^e with a significand of MantBits bits and rounding   *)
(* to nearest, ties to even (IEEE 754 binary64 has 53 bits).  A calendar   *)
(* date (pandas Timestamp at midnight) is a triple <<year, month, day>>.   *)
(***************************************************************************)
EXTENDS Integers, Sequences, FiniteSets, TLC

\* ------------------------------------------------------------------ bounds
MantBits == 8
MaxParcelas == 3
MaxCompras == 2
MaxLinhas == 3
MaxComprasCiclo == 1
MaxComprasExcel == 1
MaxOrcamento == 2
MaxLinhasExcel == 1
MaxCategorias == 3
MaxInvestimentos == 2
MaxReceitasSessao == 1
MaxLancamentos == 2

\* ---------------------------------------------------- integer helpers
Abs(x) == IF x < 0 THEN -x ELSE x

Sinal(x) == IF x < 0 THEN -1 ELSE 1

Min(a, b) == IF a <= b THEN a ELSE b

RECURSIVE Pow2(_)
Pow2(n) == IF n <= 0 THEN 1 ELSE 2 * Pow2(n - 1)

RECURSIVE Bits(_)
Bits(n) == IF n <= 0 THEN 0 ELSE 1 + Bits(n \div 2)

\* ------------------------------------------------- floating point values
\* Round the exact value m * 2^e to a float of MantBits bits (nearest, ties
\* to even).  The result is <<0, 0>> or has 2^(MantBits-1) <= |m| < 2^MantBits.
Norm(m, e) ==
    IF m = 0 THEN <<0, 0>>
    ELSE LET k == Bits(Abs(m)) - MantBits IN
         IF k <= 0 THEN <<m * Pow2(-k), e + k>>
         ELSE LET q == Abs(m) \div Pow2(k)
                  r == Abs(m) % Pow2(k)
                  h == Pow2(k - 1)
                  up == IF r > h \/ (r = h /\ q % 2 = 1) THEN 1 ELSE 0
                  q2 == q + up
              IN IF q2 = Pow2(MantBits)
                 THEN <<Sinal(m) * Pow2(MantBits - 1), e + k + 1>>
                 ELSE <<Sinal(m) * q2, e + k>>

\* float(k) for an integer k
FromInt(k) == Norm(k, 0)

\* Smallest s >= 0 such that (a * 2^s) \div n has MantBits bits (a, n > 0).
RECURSIVE DivShift(_, _, _)
DivShift(a, n, s) ==
    IF (a * Pow2(s)) \div n >= Pow2(MantBits - 1) THEN s ELSE DivShift(a, n, s + 1)

\* x / n for a float x and a nonzero integer n, correctly rounded.
FDiv(x, n) ==
    IF x[1] = 0 THEN <<0, 0>>
    ELSE LET a == Abs(x[1])
             d == Abs(n)
             s == DivShift(a, d, 0)
             q == (a * Pow2(s)) \div d
             r == (a * Pow2(s)) % d
             up == IF 2 * r > d \/ (2 * r = d /\ q % 2 = 1) THEN 1 ELSE 0
         IN Norm(Sinal(x[1]) * Sinal(n) * (q + up), x[2] - s)

FPositivo(x) == x[1] > 0

FNegativo(x) == x[1] < 0

\* The exact value of x as an integer multiple of 2^emin (emin <= x[2]).
Escala(x, emin) == x[1] * Pow2(x[2] - emin)

\* ------------------------------------------------------------- calendar
Bissexto(y) == (y % 4 = 0 /\ y % 100 # 0) \/ y % 400 = 0

DiasNoMes(y, m) ==
    IF m = 2 THEN (IF Bissexto(y) THEN 29 ELSE 28)
    ELSE IF m \in {4, 6, 9, 11} THEN 30 ELSE 31

\* Timestamp + pd.DateOffset(months=k): the month advances by k and the day
\* is clamped to the length of the target month.
DateOffsetMeses(dt, k) ==
    LET idx == dt[1] * 12 + (dt[2] - 1) + k
        y == idx \div 12
        m == (idx % 12) + 1
    IN <<y, m, Min(dt[3], DiasNoMes(y, m))>>

\* ---------------------------------------------------------------- state
VARIABLES
    receitas,        \* cf.receitas: rows [data, fonte, valor, tipo]
    gastos,          \* cf.gastos: rows [data, categoria, descricao, valor, forma_pagamento]
    investimentos,   \* cf.investimentos: rows [data, tipo, objetivo, valor, rentabilidade_mensal]
    cartao,          \* cf.cartao: one row per installment
    orcamento,       \* cf.orcamento: rows [categoria, limite_mensal]
    arquivos,        \* the CSV files of dados_financeiros/, by table name
    planilha,        \* the Excel workbook last written by exportar_para_excel
    backup,          \* the backup_import_<timestamp> directory last created
    origem,          \* history: for each row of cartao, the number of the purchase
                     \*          that added it (0 when the row was read from a file)
    compras,         \* history: the purchases that added rows, in order
    chamada,         \* the last call made to the program and how it ended
    servidor         \* the browser session being served (whose cf the variables
                     \* above hold), the other session, and the CSV files of
                     \* the other file bases

tabelas == <<receitas, gastos, investimentos, cartao, orcamento>>

vars == <<receitas, gastos, investimentos, cartao, orcamento, arquivos, planilha,
          backup, origem, compras, chamada, servidor>>

\* Python's None
Nenhum == <<>>

\* A file, or a workbook sheet, that does not exist
Ausente == [existe |-> FALSE, linhas |-> <<>>]

\* pandas' missing value in a text column
NaN == "<NaN>"

Tabelas == {"receitas", "gastos", "investimentos", "cartao", "orcamento"}

SemErro == "nenhum"

\* --------------------------------------------------- ControleFinanceiro
LimitePadrao == 1500

OrcamentoPadrao == <<[categoria |-> "Cartão de Crédito", limite_mensal |-> LimitePadrao]>>

\* Python binds a call only if every keyword passed names a parameter of the
\* function; otherwise the call raises TypeError before the body runs.
AceitaArgumentos(passados, parametros) == passados \subseteq parametros

ParametrosAdicionarCompraCartao ==
    {"data_compra", "descricao", "valor", "parcelas", "vencimento_fatura"}

ParametrosMarcarFaturaPaga == {"mes", "ano"}

DiaVencimentoPadrao == 10

\* The due date used when vencimento_fatura is None.
VencimentoPadrao(data_compra) ==
    IF data_compra[3] <= DiaVencimentoPadrao
    THEN <<data_compra[1], data_compra[2], DiaVencimentoPadrao>>
    ELSE IF data_compra[2] = 12
         THEN <<data_compra[1] + 1, 1, DiaVencimentoPadrao>>
         ELSE <<data_compra[1], data_compra[2] + 1, DiaVencimentoPadrao>>

PrimeiroVencimento(data_compra, vencimento_fatura) ==
    IF vencimento_fatura = Nenhum THEN VencimentoPadrao(data_compra)
    ELSE vencimento_fatura

\* A plausible slip: every installment carries the undivided total.
ValorParcela_semDivisao(valor, parcelas) == valor

ValorParcela(valor, parcelas) == FDiv(valor, parcelas)

\* A plausible slip: the loop index is printed without the + 1.
DescricaoParcela_indiceZero(descricao, i, parcelas) ==
    IF parcelas > 1
    THEN descricao \o " (" \o ToString(i) \o "/" \o ToString(parcelas) \o ")"
    ELSE descricao

\* i is the loop index of range(parcelas), starting at 0
DescricaoParcela(descricao, i, parcelas) ==
    IF parcelas > 1
    THEN descricao \o " (" \o ToString(i + 1) \o "/" \o ToString(parcelas) \o ")"
    ELSE descricao

\* A plausible slip: the month wraps around but the year is not advanced.
VencimentoParcela_semAno(vencimento, i) ==
    LET m == ((vencimento[2] - 1 + i) % 12) + 1
    IN <<vencimento[1], m, Min(vencimento[3], DiasNoMes(vencimento[1], m))>>

VencimentoParcela(vencimento, i) == DateOffsetMeses(vencimento, i)

\* A plausible slip: rows are created already paid.
PagoInicial_pago == TRUE

PagoInicial == FALSE

NovaCompra(data_compra, descricao, valor_parcela, parcelas, i, vencimento) ==
    [data_compra |-> data_compra,
     descricao |-> DescricaoParcela(descricao, i, parcelas),
     valor |-> valor_parcela,
     parcelas |-> parcelas,
     parcela_atual |-> i + 1,
     vencimento_fatura |-> VencimentoParcela(vencimento, i),
     pago |-> PagoInicial]

\* The rows the loop "for i in range(parcelas)" appends (none if parcelas <= 0).
LinhasDaCompra(data_compra, descricao, valor, parcelas, vencimento_fatura) ==
    [k \in 1..parcelas |->
        NovaCompra(data_compra, descricao, ValorParcela(valor, parcelas), parcelas,
                   k - 1, PrimeiroVencimento(data_compra, vencimento_fatura))]

ArgsCompra(data_compra, descricao, valor, parcelas, vencimento_fatura) ==
    [data_compra |-> data_compra, descricao |-> descricao, valor |-> valor,
     parcelas |-> parcelas, vencimento_fatura |-> vencimento_fatura]

\* cf.adicionar_compra_cartao(data_compra, descricao, valor, parcelas, vencimento_fatura)
AdicionarCompraCartao(data_compra, descricao, valor, parcelas, vencimento_fatura) ==
    /\ Len(cartao) + (IF parcelas > 0 THEN parcelas ELSE 0) <= MaxLinhas
    /\ IF parcelas = 0
       THEN \* valor / parcelas raises ZeroDivisionError before any row is added
            /\ chamada' = [op |-> "adicionar_compra_cartao", erro |-> "ZeroDivisionError",
                           arg |-> ArgsCompra(data_compra, descricao, valor, parcelas,
                                              vencimento_fatura)]
            /\ UNCHANGED <<cartao, origem, compras>>
       ELSE /\ cartao' = cartao \o LinhasDaCompra(data_compra, descricao, valor, parcelas,
                                                  vencimento_fatura)
            /\ origem' = origem \o [k \in 1..parcelas |-> Len(compras) + 1]
            /\ compras' = IF parcelas > 0
                          THEN Append(compras, ArgsCompra(data_compra, descricao, valor,
                                                          parcelas, vencimento_fatura))
                          ELSE compras
            /\ chamada' = [op |-> "adicionar_compra_cartao", erro |-> SemErro,
                           arg |-> ArgsCompra(data_compra, descricao, valor, parcelas,
                                              vencimento_fatura)]
    /\ UNCHANGED <<receitas, gastos, investimentos, orcamento, arquivos, planilha, backup, servidor>>

\* cf.adicionar_receita(data, fonte, valor, tipo): no check of valor, no save
NovaReceita(data, fonte, valor, tipo) ==
    [data |-> data, fonte |-> fonte, valor |-> valor, tipo |-> tipo]

\* A variant that puts the new row first
AdicionarReceita_noInicio(data, fonte, valor, tipo) ==
    /\ receitas' = <<NovaReceita(data, fonte, valor, tipo)>> \o receitas
    /\ chamada' = [op |-> "adicionar_receita", erro |-> SemErro, arg |-> [valor |-> valor]]
    /\ UNCHANGED <<gastos, investimentos, cartao, orcamento, arquivos, planilha, backup,
                   origem, compras, servidor>>

AdicionarReceita(data, fonte, valor, tipo) ==
    /\ receitas' = Append(receitas, NovaReceita(data, fonte, valor, tipo))
    /\ chamada' = [op |-> "adicionar_receita", erro |-> SemErro, arg |-> [valor |-> valor]]
    /\ UNCHANGED <<gastos, investimentos, cartao, orcamento, arquivos, planilha, backup,
                   origem, compras, servidor>>

\* cf.adicionar_gasto(data, categoria, descricao, valor, forma_pagamento)
NovoGasto(data, categoria, descricao, valor, forma_pagamento) ==
    [data |-> data, categoria |-> categoria, descricao |-> descricao, valor |-> valor,
     forma_pagamento |-> forma_pagamento]

AdicionarGasto(data, categoria, descricao, valor, forma_pagamento) ==
    /\ gastos' = Append(gastos, NovoGasto(data, categoria, descricao, valor,
                                          forma_pagamento))
    /\ chamada' = [op |-> "adicionar_gasto", erro |-> SemErro, arg |-> [valor |-> valor]]
    /\ UNCHANGED <<receitas, investimentos, cartao, orcamento, arquivos, planilha, backup,
                   origem, compras, servidor>>

\* cf.adicionar_investimento(data, tipo, valor, rentabilidade_mensal, objetivo)
NovoInvestimento(data, tipo, valor, rentabilidade_mensal, objetivo) ==
    [data |-> data, tipo |-> tipo, objetivo |-> objetivo, valor |-> valor,
     rentabilidade_mensal |-> rentabilidade_mensal]

AdicionarInvestimento(data, tipo, valor, rentabilidade_mensal, objetivo) ==
    /\ investimentos' = Append(investimentos,
                               NovoInvestimento(data, tipo, valor, rentabilidade_mensal,
                                                objetivo))
    /\ chamada' = [op |-> "adicionar_investimento", erro |-> SemErro,
                   arg |-> [valor |-> valor]]
    /\ UNCHANGED <<receitas, gastos, cartao, orcamento, arquivos, planilha, backup,
                   origem, compras, servidor>>

\* self.orcamento.loc[self.orcamento['categoria'] == categoria, 'limite_mensal'] = limite_mensal
ComLimite(linhas, categoria, limite_mensal) ==
    [i \in 1..Len(linhas) |->
        IF linhas[i].categoria = categoria
        THEN [linhas[i] EXCEPT !.limite_mensal = limite_mensal]
        ELSE linhas[i]]

OrcamentoAtualizado(linhas, categoria, limite_mensal) ==
    IF \E i \in 1..Len(linhas) : linhas[i].categoria = categoria
    THEN ComLimite(linhas, categoria, limite_mensal)
    ELSE Append(linhas, [categoria |-> categoria, limite_mensal |-> limite_mensal])

\* cf.atualizar_orcamento(categoria, limite_mensal): no save
AtualizarOrcamento(categoria, limite_mensal) ==
    /\ orcamento' = OrcamentoAtualizado(orcamento, categoria, limite_mensal)
    /\ chamada' = [op |-> "atualizar_orcamento", erro |-> SemErro,
                   arg |-> [categoria |-> categoria, limite_mensal |-> limite_mensal]]
    /\ UNCHANGED <<receitas, gastos, investimentos, cartao, arquivos, planilha, backup,
                   origem, compras, servidor>>

\* ------------------------------------------------------ CSV persistence
\* The text columns of each table (the others hold dates, numbers, booleans).
ColunasTexto(t) ==
    CASE t = "receitas" -> {"fonte", "tipo"}
      [] t = "gastos" -> {"categoria", "descricao", "forma_pagamento"}
      [] t = "investimentos" -> {"tipo", "objetivo"}
      [] t = "cartao" -> {"descricao"}
      [] t = "orcamento" -> {"categoria"}

\* Strings that read_csv turns into NaN (its default na_values); the empty
\* string is the one to_csv writes for NaN.
ValoresNA == {"", "NA", "N/A", "NULL", "NaN", "None", "n/a", "nan", "null"}

\* DataFrame.to_csv(index=False): a missing text is written as the empty field.
CampoEscrito(x) == IF x = NaN THEN "" ELSE x

\* pd.read_csv: a text field holding one of the NA strings is read as NaN.
CampoLido(x) == IF x \in ValoresNA THEN NaN ELSE x

EscreverCsv(t, linhas) ==
    [existe |-> TRUE,
     linhas |-> [i \in 1..Len(linhas) |->
                   [c \in DOMAIN linhas[i] |->
                       IF c \in ColunasTexto(t) THEN CampoEscrito(linhas[i][c])
                       ELSE linhas[i][c]]]]

\* A plausible slip: the pago column read as text and cast with bool(), which
\* is True for "False" as for any non-empty text.
LerCsv_pagoTexto(t, arquivo) ==
    [i \in 1..Len(arquivo.linhas) |->
        IF t = "cartao" THEN [arquivo.linhas[i] EXCEPT !.pago = TRUE]
        ELSE arquivo.linhas[i]]

LerCsv(t, arquivo) ==
    [i \in 1..Len(arquivo.linhas) |->
        [c \in DOMAIN arquivo.linhas[i] |->
            IF c \in ColunasTexto(t) THEN CampoLido(arquivo.linhas[i][c])
            ELSE arquivo.linhas[i][c]]]

\* The columns of the frame carregar_dados builds when the file is missing
ColunasVazia(t) ==
    CASE t = "gastos" -> {"data", "categoria", "descricao", "valor", "forma_pagamento"}
      [] t = "investimentos" -> {"data", "tipo", "objetivo", "valor", "rentabilidade_mensal"}
      [] t = "orcamento" -> {"categoria", "limite_mensal"}
      [] t = "cartao" -> {"data_compra", "descricao", "valor", "parcelas", "parcela_atual",
                          "vencimento_fatura", "pago"}
      [] t = "receitas" -> {"data", "fonte", "valor", "tipo"}

\* A plausible slip: the default budget row not created
TabelaVazia_semPadrao(t) == <<>>

\* The table carregar_dados builds when the file is missing.
TabelaVazia(t) == IF t = "orcamento" THEN OrcamentoPadrao ELSE <<>>

\* carregar_dados, for one table, from the files arqs
Lida(arqs, t) == IF arqs[t].existe THEN LerCsv(t, arqs[t]) ELSE TabelaVazia(t)

Carregada(t) == Lida(arquivos, t)

\* A plausible slip: the tables appended to the files (to_csv(mode='a'))
ArquivosSalvos_acrescenta(rec, gas, inv, car, orc) ==
    [t \in Tabelas |->
        [existe |-> TRUE,
         linhas |-> arquivos[t].linhas \o
                    EscreverCsv(t, CASE t = "receitas" -> rec
                                     [] t = "gastos" -> gas
                                     [] t = "investimentos" -> inv
                                     [] t = "cartao" -> car
                                     [] t = "orcamento" -> orc).linhas]]

\* What salvar_dados writes: every table, whole, over its file.
ArquivosSalvos(rec, gas, inv, car, orc) ==
    [t \in Tabelas |->
        EscreverCsv(t, CASE t = "receitas" -> rec
                         [] t = "gastos" -> gas
                         [] t = "investimentos" -> inv
                         [] t = "cartao" -> car
                         [] t = "orcamento" -> orc)]

\* cf.salvar_dados()
SalvarDados ==
    /\ arquivos' = ArquivosSalvos(receitas, gastos, investimentos, cartao, orcamento)
    /\ chamada' = [op |-> "salvar_dados", erro |-> SemErro, arg |-> Nenhum]
    /\ UNCHANGED <<receitas, gastos, investimentos, cartao, orcamento, planilha, backup,
                   origem, compras, servidor>>

\* A new session: ControleFinanceiro() runs carregar_dados on the stored files.
NovaSessao ==
    /\ receitas' = Carregada("receitas")
    /\ gastos' = Carregada("gastos")
    /\ investimentos' = Carregada("investimentos")
    /\ cartao' = Carregada("cartao")
    /\ orcamento' = Carregada("orcamento")
    /\ origem' = [i \in 1..Len(Carregada("cartao")) |-> 0]
    /\ chamada' = [op |-> "init", erro |-> SemErro, arg |-> Nenhum]
    /\ UNCHANGED <<arquivos, planilha, backup, compras, servidor>>

\* No workbook has been exported yet.
SemPlanilha == [existe |-> FALSE, abas |-> <<>>]

\* No import has made a backup yet.
SemBackup == [existe |-> FALSE, arquivos |-> <<>>]

\* ---------------------------------------------------------- Excel workbook
\* A sheet is the sequence of rows pd.read_excel(xls, aba, skiprows=2) yields:
\* each row a function from column header to cell value, a blank cell being a
\* header outside the row's domain.

\* xlsxwriter stores a number as "%.16G" text, fewer significant digits than a
\* float holds.  With floats of MantBits bits the cell keeps MantBits - 1 bits
\* (round to nearest, ties to even).
CelulaNumero(x) ==
    IF x[1] % 2 = 0 THEN x
    ELSE LET q == Abs(x[1]) \div 2
         IN Norm(Sinal(x[1]) * (q + (q % 2)), x[2] + 1)

\* x * n for a float x and an integer n, correctly rounded
FMul(x, n) == Norm(x[1] * n, x[2])

\* The frame sorted by a date column, as sort_values(coluna, ascending=...)
\* orders it: rows of equal date keep their order (the frames here are far
\* below the 16 rows up to which numpy's sort is an insertion sort).
DataMenor(a, b) ==
    \/ a[1] < b[1]
    \/ a[1] = b[1] /\ a[2] < b[2]
    \/ a[1] = b[1] /\ a[2] = b[2] /\ a[3] < b[3]

Posicao(linhas, coluna, ascending, j) ==
    1 + Cardinality({h \in 1..Len(linhas) :
            \/ IF ascending THEN DataMenor(linhas[h][coluna], linhas[j][coluna])
                            ELSE DataMenor(linhas[j][coluna], linhas[h][coluna])
            \/ linhas[h][coluna] = linhas[j][coluna] /\ h < j})

SortValues(linhas, coluna, ascending) ==
    [i \in 1..Len(linhas) |->
        linhas[CHOOSE j \in 1..Len(linhas) : Posicao(linhas, coluna, ascending, j) = i]]

\* worksheet.write of every cell of a row: an empty text is written as a blank cell.
LinhaPlanilha(celulas, textos) ==
    [c \in {k \in DOMAIN celulas : ~(k \in textos /\ celulas[k] = "")} |-> celulas[c]]

\* f"{parcela_atual}/{parcelas}"
ParcelaStr(parcela_atual, parcelas) == ToString(parcela_atual) \o "/" \o ToString(parcelas)

\* The cached value xlsxwriter stores with a formula cell
ValorFormula == <<0, 0>>

\* _criar_aba_gastos
AbaGastos ==
    [i \in 1..Len(gastos) |->
        LET g == SortValues(gastos, "data", FALSE)[i]
        IN LinhaPlanilha(("Data" :> g.data) @@ ("Categoria" :> g.categoria) @@
                         ("Descrição" :> g.descricao) @@ ("Valor" :> CelulaNumero(g.valor)) @@
                         ("Forma Pgto" :> g.forma_pagamento),
                         {"Categoria", "Descrição", "Forma Pgto"})]
    \o <<("Descrição" :> "TOTAL") @@ ("Valor" :> ValorFormula)>>

\* _criar_aba_receitas
AbaReceitas ==
    [i \in 1..Len(receitas) |->
        LET r == SortValues(receitas, "data", FALSE)[i]
        IN LinhaPlanilha(("Data" :> r.data) @@ ("Fonte" :> r.fonte) @@ ("Tipo" :> r.tipo) @@
                         ("Valor" :> CelulaNumero(r.valor)),
                         {"Fonte", "Tipo"})]
    \o <<("Tipo" :> "TOTAL") @@ ("Valor" :> ValorFormula)>>

\* _criar_aba_investimentos: the monthly rate is written as a fraction
AbaInvestimentos ==
    [i \in 1..Len(investimentos) |->
        LET v == SortValues(investimentos, "data", FALSE)[i]
        IN LinhaPlanilha(("Data" :> v.data) @@ ("Tipo" :> v.tipo) @@
                         ("Objetivo" :> v.objetivo) @@ ("Valor" :> CelulaNumero(v.valor)) @@
                         ("Rent. Mensal %" :>
                              CelulaNumero(FDiv(v.rentabilidade_mensal, 100))),
                         {"Tipo", "Objetivo"})]
    \o <<("Objetivo" :> "TOTAL INVESTIDO") @@ ("Valor" :> ValorFormula)>>

\* _criar_aba_cartao: the frame has no 'cartao' column, so the card is 'Cartão'
AbaCartao ==
    [i \in 1..Len(cartao) |->
        LET c == SortValues(cartao, "vencimento_fatura", TRUE)[i]
        IN LinhaPlanilha(("Data Compra" :> c.data_compra) @@ ("Descrição" :> c.descricao) @@
                         ("Valor" :> CelulaNumero(c.valor)) @@ ("Parcelas" :> c.parcelas) @@
                         ("Parcela" :> ParcelaStr(c.parcela_atual, c.parcelas)) @@
                         ("Vencimento" :> c.vencimento_fatura) @@ ("Cartão" :> "Cartão") @@
                         ("Pago?" :> IF c.pago THEN "SIM" ELSE "NÃO"),
                         {"Descrição"})]
    \o <<("Descrição" :> "TOTAL EM ABERTO") @@ ("Valor" :> ValorFormula)>>

\* _criar_aba_orcamento (the columns Realizado, Diferença and % Usado are
\* never read back); the limits are whole numbers, which a cell holds exactly.
AbaOrcamento ==
    [i \in 1..Len(orcamento) |->
        LinhaPlanilha(("Categoria" :> orcamento[i].categoria) @@
                      ("Orçado" :> orcamento[i].limite_mensal),
                      {"Categoria"})]
    \o <<("Categoria" :> "TOTAL") @@ ("Orçado" :> 0)>>

\* The sheets criar_planilha_completa writes that importar_de_excel reads:
\* a ledger sheet is made only for a non-empty table, Orçamento always.
AbasCriadas ==
    {"Orçamento"}
    \cup (IF Len(gastos) > 0 THEN {"Gastos"} ELSE {})
    \cup (IF Len(receitas) > 0 THEN {"Receitas"} ELSE {})
    \cup (IF Len(investimentos) > 0 THEN {"Investimentos"} ELSE {})
    \cup (IF Len(cartao) > 0 THEN {"Cartão de Crédito"} ELSE {})

PlanilhaCompleta ==
    [existe |-> TRUE,
     abas |-> [a \in AbasCriadas |->
                 CASE a = "Gastos" -> AbaGastos
                   [] a = "Receitas" -> AbaReceitas
                   [] a = "Investimentos" -> AbaInvestimentos
                   [] a = "Cartão de Crédito" -> AbaCartao
                   [] a = "Orçamento" -> AbaOrcamento]]

\* Every text of every table is present (a missing text is a float NaN, which
\* worksheet.write does not take; the export of such tables is not modelled).
Exportavel ==
    /\ \A i \in 1..Len(gastos) :
          NaN \notin {gastos[i].categoria, gastos[i].descricao, gastos[i].forma_pagamento}
    /\ \A i \in 1..Len(receitas) : NaN \notin {receitas[i].fonte, receitas[i].tipo}
    /\ \A i \in 1..Len(investimentos) :
          NaN \notin {investimentos[i].tipo, investimentos[i].objetivo}
    /\ \A i \in 1..Len(cartao) : cartao[i].descricao # NaN
    /\ \A i \in 1..Len(orcamento) : orcamento[i].categoria # NaN

\* cf.exportar_para_excel(nome_arquivo)
ExportarParaExcel ==
    /\ Exportavel
    /\ planilha' = PlanilhaCompleta
    /\ chamada' = [op |-> "exportar_para_excel", erro |-> SemErro, arg |-> Nenhum]
    /\ UNCHANGED <<receitas, gastos, investimentos, cartao, orcamento, arquivos, backup,
                   origem, compras, servidor>>

\* A text cell as read_excel returns it: blank cells and the NA strings are NaN.
TextoLido(r, coluna) == IF coluna \in DOMAIN r THEN CampoLido(r[coluna]) ELSE NaN

\* dropna(subset=...): the rows holding a value in every column of the subset
Preenchida(r, textos, outras) ==
    /\ outras \subseteq DOMAIN r
    /\ \A c \in textos : TextoLido(r, c) # NaN

DropNa(aba, textos, outras) ==
    LET fica == {j \in 1..Len(aba) : Preenchida(aba[j], textos, outras)}
    IN [i \in 1..Cardinality(fica) |->
          aba[CHOOSE j \in fica : Cardinality({h \in fica : h < j}) = i - 1]]

GastosLidos(aba) ==
    LET linhas == DropNa(aba, {"Categoria", "Descrição"}, {"Data", "Valor"})
    IN [i \in 1..Len(linhas) |->
          [data |-> linhas[i]["Data"],
           categoria |-> TextoLido(linhas[i], "Categoria"),
           descricao |-> TextoLido(linhas[i], "Descrição"),
           valor |-> linhas[i]["Valor"],
           forma_pagamento |-> TextoLido(linhas[i], "Forma Pgto")]]

ReceitasLidas(aba) ==
    LET linhas == DropNa(aba, {"Fonte"}, {"Data", "Valor"})
    IN [i \in 1..Len(linhas) |->
          [data |-> linhas[i]["Data"],
           fonte |-> TextoLido(linhas[i], "Fonte"),
           valor |-> linhas[i]["Valor"],
           tipo |-> TextoLido(linhas[i], "Tipo")]]

\* objetivo.fillna('Geral'); rentabilidade_mensal.fillna(0) * 100
InvestimentosLidos(aba) ==
    LET linhas == DropNa(aba, {"Tipo"}, {"Data", "Valor"})
    IN [i \in 1..Len(linhas) |->
          [data |-> linhas[i]["Data"],
           tipo |-> TextoLido(linhas[i], "Tipo"),
           objetivo |-> IF TextoLido(linhas[i], "Objetivo") = NaN THEN "Geral"
                        ELSE TextoLido(linhas[i], "Objetivo"),
           valor |-> linhas[i]["Valor"],
           rentabilidade_mensal |->
               IF "Rent. Mensal %" \in DOMAIN linhas[i]
               THEN FMul(linhas[i]["Rent. Mensal %"], 100) ELSE <<0, 0>>]]

\* str.split('/').str[0].astype(int) and .str[-1] of the text "i/N"
ParcelaAtualLida(parcela_str) ==
    CHOOSE i \in 1..(MaxParcelas + 1) :
        \E n \in 1..(MaxParcelas + 1) : ParcelaStr(i, n) = parcela_str

ParcelasLidas(parcela_str) ==
    CHOOSE n \in 1..(MaxParcelas + 1) :
        \E i \in 1..(MaxParcelas + 1) : ParcelaStr(i, n) = parcela_str

\* astype(str).str.upper().str.strip().isin([...]) of the Pago? cell
PagoLido(r) == "Pago?" \in DOMAIN r /\ r["Pago?"] \in {"SIM", "TRUE", "VERDADEIRO"}

\* the Cartão column is not among the columns kept
CartaoLido(aba) ==
    LET linhas == DropNa(aba, {"Descrição"}, {"Data Compra", "Valor"})
    IN [i \in 1..Len(linhas) |->
          [data_compra |-> linhas[i]["Data Compra"],
           descricao |-> TextoLido(linhas[i], "Descrição"),
           valor |-> linhas[i]["Valor"],
           parcelas |-> IF "Parcelas" \in DOMAIN linhas[i] THEN linhas[i]["Parcelas"]
                        ELSE ParcelasLidas(linhas[i]["Parcela"]),
           parcela_atual |-> ParcelaAtualLida(linhas[i]["Parcela"]),
           vencimento_fatura |-> linhas[i]["Vencimento"],
           pago |-> PagoLido(linhas[i])]]

OrcamentoLido(aba) ==
    LET linhas == DropNa(aba, {"Categoria"}, {"Orçado"})
    IN [i \in 1..Len(linhas) |->
          [categoria |-> TextoLido(linhas[i], "Categoria"),
           limite_mensal |-> linhas[i]["Orçado"]]]

\* drop_duplicates(subset=subset_keys, keep='last'): the positions kept
UltimasPorChave(linhas, subset_keys) ==
    {j \in 1..Len(linhas) :
        ~\E h \in (j + 1)..Len(linhas) :
            \A k \in subset_keys : linhas[h][k] = linhas[j][k]}

Selecionadas(linhas, posicoes) ==
    [i \in 1..Cardinality(posicoes) |->
        linhas[CHOOSE j \in posicoes : Cardinality({h \in posicoes : h < j}) = i - 1]]

\* merge_or_replace(existing_df, new_df, subset_keys)
MergeOrReplace(existing_df, new_df, subset_keys, preferir_excel) ==
    IF preferir_excel THEN new_df
    ELSE Selecionadas(existing_df \o new_df,
                      UltimasPorChave(existing_df \o new_df, subset_keys))

ChavesCartao == {"data_compra", "descricao", "valor", "parcela_atual"}

\* A variant that writes the tables in memory to the backup folder
BackupDosCsvs_daMemoria ==
    [existe |-> TRUE,
     arquivos |-> ArquivosSalvos(receitas, gastos, investimentos, cartao, orcamento)]

\* The folder backup_import_<timestamp>: a copy of each stored file that
\* exists, made before the workbook is opened
BackupDosCsvs == [existe |-> TRUE, arquivos |-> arquivos]

\* A variant that makes the backup folder before looking for the workbook
ArquivoNaoEncontrado_comBackup(preferir_excel) ==
    /\ chamada' = [op |-> "importar_de_excel", erro |-> "FileNotFoundError",
                   arg |-> [preferir_excel |-> preferir_excel]]
    /\ backup' = [existe |-> TRUE, arquivos |-> arquivos]
    /\ UNCHANGED <<receitas, gastos, investimentos, cartao, orcamento, arquivos,
                   planilha, origem, compras, servidor>>

\* importar_de_excel when the workbook is neither at the path nor in the data
\* folder: the FileNotFoundError is raised before the backup folder is made
ArquivoNaoEncontrado(preferir_excel) ==
    /\ chamada' = [op |-> "importar_de_excel", erro |-> "FileNotFoundError",
                   arg |-> [preferir_excel |-> preferir_excel]]
    /\ UNCHANGED <<receitas, gastos, investimentos, cartao, orcamento, arquivos,
                   planilha, backup, origem, compras, servidor>>

\* cf.importar_de_excel(nome_arquivo, preferir_excel): backup of the stored
\* files, then every sheet found, then salvar_dados
ImportarDeExcel(preferir_excel) ==
    IF ~planilha.existe
    THEN ArquivoNaoEncontrado(preferir_excel)
    ELSE LET novos == [a \in DOMAIN planilha.abas |->
                         CASE a = "Gastos" -> GastosLidos(planilha.abas[a])
                           [] a = "Receitas" -> ReceitasLidas(planilha.abas[a])
                           [] a = "Investimentos" -> InvestimentosLidos(planilha.abas[a])
                           [] a = "Cartão de Crédito" -> CartaoLido(planilha.abas[a])
                           [] a = "Orçamento" -> OrcamentoLido(planilha.abas[a])]
         IN /\ backup' = BackupDosCsvs
            /\ gastos' = IF "Gastos" \in DOMAIN novos
                         THEN MergeOrReplace(gastos, novos["Gastos"],
                                             {"data", "descricao", "valor", "categoria"},
                                             preferir_excel)
                         ELSE gastos
            /\ receitas' = IF "Receitas" \in DOMAIN novos
                           THEN MergeOrReplace(receitas, novos["Receitas"],
                                               {"data", "fonte", "valor", "tipo"},
                                               preferir_excel)
                           ELSE receitas
            /\ investimentos' = IF "Investimentos" \in DOMAIN novos
                                THEN MergeOrReplace(investimentos, novos["Investimentos"],
                                                    {"data", "tipo", "objetivo", "valor"},
                                                    preferir_excel)
                                ELSE investimentos
            /\ cartao' = IF "Cartão de Crédito" \in DOMAIN novos
                         THEN MergeOrReplace(cartao, novos["Cartão de Crédito"],
                                             ChavesCartao, preferir_excel)
                         ELSE cartao
            /\ origem' = IF "Cartão de Crédito" \in DOMAIN novos
                         THEN LET lidas == [i \in 1..Len(novos["Cartão de Crédito"]) |-> 0]
                              IN IF preferir_excel THEN lidas
                                 ELSE Selecionadas(origem \o lidas,
                                        UltimasPorChave(cartao \o novos["Cartão de Crédito"],
                                                        ChavesCartao))
                         ELSE origem
            /\ orcamento' = IF "Orçamento" \in DOMAIN novos THEN novos["Orçamento"]
                            ELSE orcamento
            /\ arquivos' = ArquivosSalvos(receitas', gastos', investimentos', cartao',
                                          orcamento')
            /\ chamada' = [op |-> "importar_de_excel", erro |-> SemErro,
                           arg |-> [preferir_excel |-> preferir_excel]]
            /\ UNCHANGED <<planilha, compras, servidor>>

\* --------------------------------------------------- Streamlit handlers
\* form_cartao "Adicionar compra": the call passes cartao=, vencimento_dia= and
\* mes_fatura_ref=; the except clause shows the error and salvar_dados is skipped.
FormCartao(c_data, c_desc, c_valor, c_parc, c_cartao, c_venc, c_mes_fatura) ==
    /\ c_valor[1] >= 0
    /\ c_parc >= 1
    /\ c_venc \in 1..31
    /\ IF AceitaArgumentos({"cartao", "vencimento_dia", "mes_fatura_ref"},
                           ParametrosAdicionarCompraCartao)
       THEN FALSE
       ELSE /\ chamada' = [op |-> "form_cartao", erro |-> "TypeError",
                           arg |-> [data_compra |-> c_data, descricao |-> c_desc,
                                    valor |-> c_valor, parcelas |-> c_parc,
                                    cartao |-> c_cartao, vencimento_dia |-> c_venc,
                                    mes_fatura_ref |-> c_mes_fatura]]
            /\ UNCHANGED <<receitas, gastos, investimentos, cartao, orcamento, arquivos,
                           planilha, backup, origem, compras, servidor>>

\* "Atualizar Status": cf.cartao.loc[idx_pago, 'pago'] = pago_flag; salvar_dados()
ComPago(linhas, idx, flag) ==
    [j \in 1..Len(linhas) |->
        IF j = idx + 1 THEN [linhas[j] EXCEPT !.pago = flag] ELSE linhas[j]]

UpdatePago(idx, flag) ==
    /\ Len(cartao) > 0
    /\ idx \in 0..(Len(cartao) - 1)
    /\ cartao' = ComPago(cartao, idx, flag)
    /\ arquivos' = ArquivosSalvos(receitas, gastos, investimentos, cartao', orcamento)
    /\ chamada' = [op |-> "update_pago", erro |-> SemErro, arg |-> Nenhum]
    /\ UNCHANGED <<receitas, gastos, investimentos, orcamento, planilha, backup, origem, compras,
                   servidor>>

\* mask of marcar_fatura_paga: the rows falling due in month mes of year ano
NaFatura(linha, mes, ano) ==
    linha.vencimento_fatura[2] = mes /\ linha.vencimento_fatura[1] = ano

FaturaPaga(linhas, mes, ano) ==
    [j \in 1..Len(linhas) |->
        IF NaFatura(linhas[j], mes, ano) THEN [linhas[j] EXCEPT !.pago = TRUE]
        ELSE linhas[j]]

\* cf.marcar_fatura_paga(mes, ano)
MarcarFaturaPaga(mes, ano) ==
    /\ cartao' = FaturaPaga(cartao, mes, ano)
    /\ chamada' = [op |-> "marcar_fatura_paga", erro |-> SemErro,
                   arg |-> [mes |-> mes, ano |-> ano, pago |-> TRUE]]
    /\ UNCHANGED <<receitas, gastos, investimentos, orcamento, arquivos, planilha, backup,
                   origem, compras, servidor>>

\* "Marcar Fatura do Mês": the month and year of row idx_pago are passed with
\* cartao= and pago=, which marcar_fatura_paga does not take; the TypeError is
\* not caught, the script run ends and salvar_dados is not reached.
MarkFatura(idx, flag) ==
    /\ Len(cartao) > 0
    /\ idx \in 0..(Len(cartao) - 1)
    /\ IF AceitaArgumentos({"cartao", "pago"}, ParametrosMarcarFaturaPaga)
       THEN FALSE
       ELSE /\ chamada' = [op |-> "mark_fatura", erro |-> "TypeError",
                           arg |-> [mes |-> cartao[idx + 1].vencimento_fatura[2],
                                    ano |-> cartao[idx + 1].vencimento_fatura[1],
                                    pago |-> flag]]
            /\ UNCHANGED <<receitas, gastos, investimentos, cartao, orcamento, arquivos,
                           planilha, backup, origem, compras, servidor>>

\* A plausible slip: df.drop(df.index[idx:]) drops row idx and every row after it.
SemLinha_ateFim(linhas, idx) == SubSeq(linhas, 1, idx)

\* A plausible slip: the row number taken as counted from 1, so that the row
\* after the chosen one is dropped (the last row when there is none after).
SemLinha_umAdiante(linhas, idx) ==
    LET k == IF idx + 2 <= Len(linhas) THEN idx + 2 ELSE Len(linhas)
    IN [j \in 1..(Len(linhas) - 1) |-> IF j < k THEN linhas[j] ELSE linhas[j + 1]]

\* df.drop(idx).reset_index(drop=True)
SemLinha(linhas, idx) ==
    [j \in 1..(Len(linhas) - 1) |-> IF j <= idx THEN linhas[j] ELSE linhas[j + 1]]

\* "Deletar" (compra): cf.cartao = cf.cartao.drop(idx).reset_index(drop=True); salvar_dados()
DelCartao(idx) ==
    /\ Len(cartao) > 0
    /\ idx \in 0..(Len(cartao) - 1)
    /\ cartao' = SemLinha(cartao, idx)
    /\ origem' = SemLinha(origem, idx)
    /\ arquivos' = ArquivosSalvos(receitas, gastos, investimentos, cartao', orcamento)
    /\ chamada' = [op |-> "del_cartao", erro |-> SemErro, arg |-> [idx |-> idx]]
    /\ UNCHANGED <<receitas, gastos, investimentos, orcamento, planilha, backup, compras, servidor>>

\* st.number_input(..., min_value=0.0): the widget yields any float >= 0
NumberInput(x) == x[1] >= 0

\* form_receita "Adicionar receita": adicionar_receita, then salvar_dados
FormReceita(r_data, r_desc, r_valor, r_tipo) ==
    /\ NumberInput(r_valor)
    /\ receitas' = Append(receitas, NovaReceita(r_data, r_desc, r_valor, r_tipo))
    /\ arquivos' = ArquivosSalvos(receitas', gastos, investimentos, cartao, orcamento)
    /\ chamada' = [op |-> "form_receita", erro |-> SemErro, arg |-> [valor |-> r_valor]]
    /\ UNCHANGED <<gastos, investimentos, cartao, orcamento, planilha, backup, origem, compras,
                   servidor>>

\* form_gasto "Adicionar gasto"
FormGasto(g_data, g_cat, g_desc, g_valor, g_pg) ==
    /\ NumberInput(g_valor)
    /\ gastos' = Append(gastos, NovoGasto(g_data, g_cat, g_desc, g_valor, g_pg))
    /\ arquivos' = ArquivosSalvos(receitas, gastos', investimentos, cartao, orcamento)
    /\ chamada' = [op |-> "form_gasto", erro |-> SemErro, arg |-> [valor |-> g_valor]]
    /\ UNCHANGED <<receitas, investimentos, cartao, orcamento, planilha, backup, origem, compras,
                   servidor>>

\* form_inv "Adicionar investimento"
FormInv(i_data, i_tipo, i_valor, i_rent, i_obj) ==
    /\ NumberInput(i_valor)
    /\ NumberInput(i_rent)
    /\ investimentos' = Append(investimentos,
                               NovoInvestimento(i_data, i_tipo, i_valor, i_rent, i_obj))
    /\ arquivos' = ArquivosSalvos(receitas, gastos, investimentos', cartao, orcamento)
    /\ chamada' = [op |-> "form_inv", erro |-> SemErro, arg |-> [valor |-> i_valor]]
    /\ UNCHANGED <<receitas, gastos, cartao, orcamento, planilha, backup, origem, compras, servidor>>

\* df.loc[idx, coluna] = valor for every column of the edit form
ComLinha(linhas, idx, nova) ==
    [j \in 1..Len(linhas) |-> IF j = idx + 1 THEN nova ELSE linhas[j]]

\* "Salvar Edição" (gasto)
SaveEditGasto(idx_editar, nova_data, nova_cat, nova_desc, novo_valor, nova_pg) ==
    /\ Len(gastos) > 0
    /\ idx_editar \in 0..(Len(gastos) - 1)
    /\ NumberInput(novo_valor)
    /\ gastos' = ComLinha(gastos, idx_editar,
                          NovoGasto(nova_data, nova_cat, nova_desc, novo_valor, nova_pg))
    /\ arquivos' = ArquivosSalvos(receitas, gastos', investimentos, cartao, orcamento)
    /\ chamada' = [op |-> "save_edit_gasto", erro |-> SemErro,
                   arg |-> [valor |-> novo_valor]]
    /\ UNCHANGED <<receitas, investimentos, cartao, orcamento, planilha, backup, origem, compras,
                   servidor>>

\* "Deletar" (gasto)
DelGasto(idx_deletar) ==
    /\ Len(gastos) > 0
    /\ idx_deletar \in 0..(Len(gastos) - 1)
    /\ gastos' = SemLinha(gastos, idx_deletar)
    /\ arquivos' = ArquivosSalvos(receitas, gastos', investimentos, cartao, orcamento)
    /\ chamada' = [op |-> "del_gasto", erro |-> SemErro, arg |-> [idx |-> idx_deletar]]
    /\ UNCHANGED <<receitas, investimentos, cartao, orcamento, planilha, backup, origem, compras,
                   servidor>>

\* "Salvar Edição" (receita)
SaveEditReceita(idx_editar, nova_data, nova_fonte, novo_valor, novo_tipo) ==
    /\ Len(receitas) > 0
    /\ idx_editar \in 0..(Len(receitas) - 1)
    /\ NumberInput(novo_valor)
    /\ receitas' = ComLinha(receitas, idx_editar,
                            NovaReceita(nova_data, nova_fonte, novo_valor, novo_tipo))
    /\ arquivos' = ArquivosSalvos(receitas', gastos, investimentos, cartao, orcamento)
    /\ chamada' = [op |-> "save_edit_receita", erro |-> SemErro,
                   arg |-> [valor |-> novo_valor]]
    /\ UNCHANGED <<gastos, investimentos, cartao, orcamento, planilha, backup, origem, compras,
                   servidor>>

\* "Deletar" (receita)
DelReceita(idx_deletar) ==
    /\ Len(receitas) > 0
    /\ idx_deletar \in 0..(Len(receitas) - 1)
    /\ receitas' = SemLinha(receitas, idx_deletar)
    /\ arquivos' = ArquivosSalvos(receitas', gastos, investimentos, cartao, orcamento)
    /\ chamada' = [op |-> "del_receita", erro |-> SemErro, arg |-> [idx |-> idx_deletar]]
    /\ UNCHANGED <<gastos, investimentos, cartao, orcamento, planilha, backup, origem, compras,
                   servidor>>

\* "Salvar Edição" (investimento)
SaveEditInv(idx_editar, nova_data, novo_tipo, novo_valor, nova_rent, novo_obj) ==
    /\ Len(investimentos) > 0
    /\ idx_editar \in 0..(Len(investimentos) - 1)
    /\ NumberInput(novo_valor)
    /\ NumberInput(nova_rent)
    /\ investimentos' = ComLinha(investimentos, idx_editar,
                                 NovoInvestimento(nova_data, novo_tipo, novo_valor,
                                                  nova_rent, novo_obj))
    /\ arquivos' = ArquivosSalvos(receitas, gastos, investimentos', cartao, orcamento)
    /\ chamada' = [op |-> "save_edit_inv", erro |-> SemErro,
                   arg |-> [valor |-> novo_valor]]
    /\ UNCHANGED <<receitas, gastos, cartao, orcamento, planilha, backup, origem, compras, servidor>>

\* "Deletar" (investimento)
DelInv(idx_deletar) ==
    /\ Len(investimentos) > 0
    /\ idx_deletar \in 0..(Len(investimentos) - 1)
    /\ investimentos' = SemLinha(investimentos, idx_deletar)
    /\ arquivos' = ArquivosSalvos(receitas, gastos, investimentos', cartao, orcamento)
    /\ chamada' = [op |-> "del_inv", erro |-> SemErro, arg |-> [idx |-> idx_deletar]]
    /\ UNCHANGED <<receitas, gastos, cartao, orcamento, planilha, backup, origem, compras, servidor>>

\* ------------------------------------------------- users and sessions
\* Identifiers and file bases are sequences of characters.
\* ControleFinanceiro.__init__(arquivo_base="controle_financeiro")
BasePadrao == <<"controle_financeiro">>

\* No CSV file of a base exists
SemArquivos == [t \in Tabelas |-> Ausente]

\* A browser session that has no cf in its st.session_state
SemSessao == [aberta |-> FALSE]

\* str.strip(): leading and trailing white space removed
Espaco(c) == c \in {" ", "\t", "\n"}

RECURSIVE LStrip(_)
LStrip(s) == IF s # <<>> /\ Espaco(Head(s)) THEN LStrip(Tail(s)) ELSE s

RECURSIVE RStrip(_)
RStrip(s) ==
    IF s # <<>> /\ Espaco(s[Len(s)]) THEN RStrip(SubSeq(s, 1, Len(s) - 1)) ELSE s

Strip(s) == RStrip(LStrip(s))

\* str.lower(), on the letters the identifiers of the model are written with
Minuscula(c) ==
    CASE c = "A" -> "a"
      [] c = "Z" -> "z"
      [] c = "É" -> "é"
      [] OTHER -> c

Lower(s) == [i \in 1..Len(s) |-> Minuscula(s[i])]

\* The character class [a-z0-9_-]
Permitido(c) ==
    c \in {"a", "b", "c", "d", "e", "f", "g", "h", "i", "j", "k", "l", "m", "n", "o", "p",
           "q", "r", "s", "t", "u", "v", "w", "x", "y", "z", "0", "1", "2", "3", "4", "5",
           "6", "7", "8", "9", "_", "-"}

RECURSIVE SemProibidos(_)
SemProibidos(s) ==
    IF s # <<>> /\ ~Permitido(Head(s)) THEN SemProibidos(Tail(s)) ELSE s

\* re.sub(r"[^a-z0-9_-]+", "_", nome): each run of other characters becomes one "_"
RECURSIVE ReSub(_)
ReSub(s) ==
    IF s = <<>> THEN <<>>
    ELSE IF Permitido(Head(s)) THEN <<Head(s)>> \o ReSub(Tail(s))
    ELSE <<"_">> \o ReSub(SemProibidos(Tail(s)))

slugify(nome) ==
    LET r == ReSub(Lower(Strip(nome)))
    IN IF r = <<>> THEN <<"u", "s", "u", "a", "r", "i", "o">> ELSE r

\* The CSV files <base>_<table>.csv of dados_financeiros/: those of the
\* instance being served are `arquivos`, those of every other base are kept
\* in servidor.disco (only bases that have a file).
Disco == (servidor.arquivo_base :> arquivos) @@ servidor.disco

ArquivosDe(base) == IF base \in DOMAIN Disco THEN Disco[base] ELSE SemArquivos

DiscoSem(base) ==
    [b \in {x \in DOMAIN Disco \ {base} : \E t \in Tabelas : Disco[x][t].existe} |->
        Disco[b]]

\* The st.session_state of the session being served, as it is kept while the
\* other session is served
Suspensa ==
    [aberta |-> TRUE, sessao |-> servidor.sessao, nome |-> servidor.nome,
     user_slug |-> servidor.user_slug, arquivo_base |-> servidor.arquivo_base,
     receitas |-> receitas, gastos |-> gastos, investimentos |-> investimentos,
     cartao |-> cartao, orcamento |-> orcamento, origem |-> origem]

\* ControleFinanceiro(arquivo_base=base): the tables are loaded from its files
NovaInstancia(base) ==
    /\ arquivos' = ArquivosDe(base)
    /\ receitas' = Lida(ArquivosDe(base), "receitas")
    /\ gastos' = Lida(ArquivosDe(base), "gastos")
    /\ investimentos' = Lida(ArquivosDe(base), "investimentos")
    /\ cartao' = Lida(ArquivosDe(base), "cartao")
    /\ orcamento' = Lida(ArquivosDe(base), "orcamento")
    /\ origem' = [i \in 1..Len(Lida(ArquivosDe(base), "cartao")) |-> 0]

\* Sidebar "Identifique-se", button "Comecar", in the session being served:
\* a blank identifier is refused and the script then fails on the unbound
\* user_slug; otherwise get_cf(slugify(user_input)) keeps the session's cf
\* when the slug is the session's, and builds a new instance when it is not.
Login(user_input) ==
    /\ chamada' = [op |-> "login",
                   erro |-> IF Strip(user_input) = <<>> THEN "NameError" ELSE SemErro,
                   arg |-> [nome |-> user_input]]
    /\ IF Strip(user_input) = <<>> \/ servidor.user_slug = slugify(user_input)
       THEN UNCHANGED <<receitas, gastos, investimentos, cartao, orcamento, arquivos,
                        origem, servidor>>
       ELSE /\ NovaInstancia(slugify(user_input))
            /\ servidor' = [servidor EXCEPT !.nome = user_input,
                                            !.user_slug = slugify(user_input),
                                            !.arquivo_base = slugify(user_input),
                                            !.disco = DiscoSem(slugify(user_input))]
    /\ UNCHANGED <<planilha, backup, compras>>

\* A second browser session opens the page and identifies itself: it has no
\* cf yet, so get_cf builds its instance; the first session keeps its own.
AbrirSessao(user_input) ==
    /\ ~servidor.outra.aberta
    /\ Strip(user_input) # <<>>
    /\ NovaInstancia(slugify(user_input))
    /\ servidor' = [sessao |-> "B", nome |-> user_input,
                    user_slug |-> slugify(user_input),
                    arquivo_base |-> slugify(user_input),
                    outra |-> Suspensa,
                    disco |-> DiscoSem(slugify(user_input))]
    /\ chamada' = [op |-> "login", erro |-> SemErro, arg |-> [nome |-> user_input]]
    /\ UNCHANGED <<planilha, backup, compras>>

\* The server turns to the other session: its st.session_state comes back
\* with the cf that session holds in memory.
TrocarSessao ==
    /\ servidor.outra.aberta
    /\ receitas' = servidor.outra.receitas
    /\ gastos' = servidor.outra.gastos
    /\ investimentos' = servidor.outra.investimentos
    /\ cartao' = servidor.outra.cartao
    /\ orcamento' = servidor.outra.orcamento
    /\ origem' = servidor.outra.origem
    /\ arquivos' = ArquivosDe(servidor.outra.arquivo_base)
    /\ servidor' = [sessao |-> servidor.outra.sessao, nome |-> servidor.outra.nome,
                    user_slug |-> servidor.outra.user_slug,
                    arquivo_base |-> servidor.outra.arquivo_base,
                    outra |-> Suspensa,
                    disco |-> DiscoSem(servidor.outra.arquivo_base)]
    /\ chamada' = [op |-> "sessao", erro |-> SemErro, arg |-> Nenhum]
    /\ UNCHANGED <<planilha, backup, compras>>

\* ------------------------------------------------ investment valuation
\* The methods class ControleFinanceiro defines (planilha_financeira.py)
Metodos ==
    {"__init__", "carregar_dados", "_criar_orcamento_padrao", "salvar_dados",
     "adicionar_receita", "adicionar_gasto", "adicionar_investimento",
     "adicionar_compra_cartao", "marcar_fatura_paga", "atualizar_orcamento",
     "visualizar_orcamento", "resumo_mensal", "resumo_anual", "projecao_anual",
     "status_cartao_credito", "gerar_dashboard", "exportar_para_excel",
     "importar_de_excel", "dashboard_anual"}

\* cf.<nome>: looking up a name the class does not define raises AttributeError
Atributo(nome) == IF nome \in Metodos THEN SemErro ELSE "AttributeError"

\* Page "Dashboard", block "Rendimentos": with investments recorded it calls
\* cf.calcular_rendimentos() before showing the yield metrics; with none it
\* shows no yield metric.
Dashboard ==
    /\ chamada' = [op |-> "dashboard",
                   erro |-> IF Len(investimentos) > 0
                            THEN Atributo("calcular_rendimentos") ELSE SemErro,
                   arg |-> Nenhum]
    /\ UNCHANGED <<receitas, gastos, investimentos, cartao, orcamento, arquivos, planilha,
                   backup, origem, compras, servidor>>

\* A plausible slip: the derived columns computed on the ledger itself
VerInvestimentos_naTabela ==
    /\ investimentos' = [i \in 1..Len(investimentos) |->
                            [c \in DOMAIN investimentos[i] \cup {"valor_atual"} |->
                                IF c = "valor_atual" THEN investimentos[i].valor
                                ELSE investimentos[i][c]]]
    /\ chamada' = [op |-> "ver_investimentos", erro |-> SemErro, arg |-> Nenhum]
    /\ UNCHANGED <<receitas, gastos, cartao, orcamento, arquivos, planilha, backup,
                   origem, compras, servidor>>

\* Page "Visualizar e Editar", tab "Investimentos": with investments recorded
\* the table is shown, then cf.calcular_rendimentos() is called; with none
\* only a notice is shown.
VerInvestimentos ==
    /\ chamada' = [op |-> "ver_investimentos",
                   erro |-> IF Len(investimentos) > 0
                            THEN Atributo("calcular_rendimentos") ELSE SemErro,
                   arg |-> Nenhum]
    /\ UNCHANGED <<receitas, gastos, investimentos, cartao, orcamento, arquivos, planilha,
                   backup, origem, compras, servidor>>

\* ------------------------------------------------------ card definitions
\* The attributes __init__ and carregar_dados set on an instance
AtributosInstancia ==
    {"arquivo_base", "pasta_dados", "arquivo_gastos", "arquivo_investimentos",
     "arquivo_orcamento", "arquivo_cartao", "arquivo_receitas", "gastos",
     "investimentos", "orcamento", "cartao", "receitas"}

\* hasattr(cf, nome)
HasAttr(nome) == nome \in AtributosInstancia \cup Metodos

\* cartoes_disponiveis of gui_financeira_streamlit.py: the cards of cf.cartoes
\* when the instance has the table, else the card "Cartão Principal"
CartoesDisponiveis == IF HasAttr("cartoes") THEN {} ELSE {"Cartão Principal"}

\* cartoes_disponiveis of gui_financeira_streamlit_public.py: the cards of
\* cf.cartoes when the instance has the table and it is not empty, else none
CartoesDisponiveisPublico == {}

\* "Salvar cartão" (gui_financeira_streamlit.py): cf.definir_cartao inside
\* try/except; the error is shown and salvar_dados is skipped
SalvarCartao(cartao_nome, venc_dia) ==
    /\ venc_dia \in 1..31
    /\ chamada' = [op |-> "salvar_cartao", erro |-> Atributo("definir_cartao"),
                   arg |-> [cartao |-> cartao_nome]]
    /\ Atributo("definir_cartao") # SemErro
    /\ UNCHANGED <<receitas, gastos, investimentos, cartao, orcamento, arquivos, planilha,
                   backup, origem, compras, servidor>>

\* form_cartao "Adicionar compra" (gui_financeira_streamlit_public.py): with no
\* card available the select box offers "Cadastre um cartao" and the submit
\* shows "Cadastre um cartao primeiro." without calling cf
FormCartaoPublico(c_data, c_desc, c_valor, c_parc) ==
    /\ c_valor[1] >= 0
    /\ c_parc >= 1
    /\ CartoesDisponiveisPublico = {}
    /\ chamada' = [op |-> "form_cartao", erro |-> "Cadastre um cartao primeiro.",
                   arg |-> [data_compra |-> c_data, descricao |-> c_desc,
                            valor |-> c_valor, parcelas |-> c_parc,
                            cartao |-> "Cadastre um cartao"]]
    /\ UNCHANGED <<receitas, gastos, investimentos, cartao, orcamento, arquivos, planilha,
                   backup, origem, compras, servidor>>

\* ------------------------------------------------------- specifications
Init ==
    /\ receitas = <<>>
    /\ gastos = <<>>
    /\ investimentos = <<>>
    /\ cartao = <<>>
    /\ orcamento = OrcamentoPadrao
    /\ arquivos = SemArquivos
    /\ planilha = SemPlanilha
    /\ backup = SemBackup
    /\ origem = <<>>
    /\ compras = <<>>
    /\ chamada = [op |-> "init", erro |-> SemErro, arg |-> Nenhum]
    /\ servidor = [sessao |-> "A", nome |-> Nenhum, user_slug |-> Nenhum,
                   arquivo_base |-> BasePadrao, outra |-> SemSessao,
                   disco |-> [b \in {} |-> SemArquivos]]

\* ------------------------------------------ card purchases (SpecCompra)
\* Inputs of the card-purchase specification
DatasCompra == {<<2025, 11, 10>>, <<2025, 12, 11>>}

VencimentosFatura == {Nenhum, <<2025, 12, 31>>}

ValoresCompra == {FromInt(300), FromInt(100), FromInt(0), FromInt(-300)}

DiasVencimento == {10, 15}

NextCompra ==
    \/ /\ Len(compras) < MaxCompras
       /\ \E d \in DatasCompra, v \in ValoresCompra, n \in (-1)..MaxParcelas,
             vf \in VencimentosFatura :
             AdicionarCompraCartao(d, "TV", v, n, vf)
    \/ \E dia \in DiasVencimento :
          FormCartao(<<2025, 12, 11>>, "TV", FromInt(300), MaxParcelas,
                     "Cartão Principal", dia, <<2025, 12, 1>>)

SpecCompra == Init /\ [][NextCompra]_vars

\* The step is a call of adicionar_compra_cartao that returned normally.
CompraFeita ==
    /\ chamada'.op = "adicionar_compra_cartao"
    /\ chamada'.erro = SemErro

\* The rows a step appended to the card ledger.
NovasLinhas == SubSeq(cartao', Len(cartao) + 1, Len(cartao'))

RECURSIVE MenorExpoente(_, _)
MenorExpoente(linhas, e) ==
    IF linhas = <<>> THEN e
    ELSE MenorExpoente(Tail(linhas), Min(e, Head(linhas).valor[2]))

\* The exact (real-number) sum of the valor fields, in units of 2^emin.
RECURSIVE SomaValores(_, _)
SomaValores(linhas, emin) ==
    IF linhas = <<>> THEN 0
    ELSE Escala(Head(linhas).valor, emin) + SomaValores(Tail(linhas), emin)

\* C1 (as stated): for total_amount > 0 and N >= 1, adding a card purchase
\* appends exactly N rows whose valor fields sum exactly to total_amount.
C1_SomaExata ==
    [][(CompraFeita /\ FPositivo(chamada'.arg.valor) /\ chamada'.arg.parcelas >= 1) =>
          LET total == chamada'.arg.valor
              emin == MenorExpoente(NovasLinhas, total[2])
          IN /\ Len(cartao') = Len(cartao) + chamada'.arg.parcelas
             /\ SubSeq(cartao', 1, Len(cartao)) = cartao
             /\ SomaValores(NovasLinhas, emin) = Escala(total, emin)]_vars

\* C1 (amended): for total_amount > 0 and N >= 1, adding a card purchase
\* appends exactly N rows, each carrying the float total_amount / N, and the
\* exact sum of their valor fields differs from total_amount by at most
\* total_amount * 2^-MantBits (one unit roundoff of the division).
C1_SomaTolerancia ==
    [][(CompraFeita /\ FPositivo(chamada'.arg.valor) /\ chamada'.arg.parcelas >= 1) =>
          LET total == chamada'.arg.valor
              emin == MenorExpoente(NovasLinhas, total[2])
              soma == SomaValores(NovasLinhas, emin)
          IN /\ Len(cartao') = Len(cartao) + chamada'.arg.parcelas
             /\ SubSeq(cartao', 1, Len(cartao)) = cartao
             /\ Abs(soma - Escala(total, emin)) * Pow2(MantBits) <= Escala(total, emin)]_vars

\* A purchase of 100 in 3 installments was added: 100 / 3 is not a float and
\* the three amounts do not add up to 100.
C1_Witness ==
    /\ chamada.op = "adicionar_compra_cartao"
    /\ chamada.erro = SemErro
    /\ chamada.arg.valor = FromInt(100)
    /\ chamada.arg.parcelas = 3
    /\ Len(cartao) >= 3
    /\ LET linhas == SubSeq(cartao, Len(cartao) - 2, Len(cartao))
           emin == MenorExpoente(linhas, chamada.arg.valor[2])
       IN SomaValores(linhas, emin) # Escala(chamada.arg.valor, emin)

\* The due-date rule for a card whose invoices fall due on day dia.
RegraVencimento(data_compra, dia) ==
    IF data_compra[3] <= dia
    THEN <<data_compra[1], data_compra[2], dia>>
    ELSE IF data_compra[2] = 12
         THEN <<data_compra[1] + 1, 1, dia>>
         ELSE <<data_compra[1], data_compra[2] + 1, dia>>

\* C2: a purchase entered for a card with due day d (1..31) and no explicit
\* first due date is added with its first installment due on day d of the
\* purchase month when the purchase day is <= d, and on day d of the following
\* month otherwise (December rolls to January of the next year).
C2_VencimentoPorDia ==
    chamada.op = "form_cartao" =>
        LET n == chamada.arg.parcelas IN
        /\ chamada.erro = SemErro
        /\ Len(cartao) >= n
        /\ cartao[Len(cartao) - n + 1].vencimento_fatura =
               RegraVencimento(chamada.arg.data_compra, chamada.arg.vencimento_dia)

\* C3: installment i of a purchase falls due (i - 1) calendar months after
\* installment 1: the month count advances by i - 1 (rolling the year) and the
\* day is the first due day, cut to the length of the month.
C3_VencimentosMensais ==
    [][(CompraFeita /\ chamada'.arg.parcelas >= 1) =>
          LET n == chamada'.arg.parcelas
              v1 == NovasLinhas[1].vencimento_fatura
          IN /\ Len(NovasLinhas) = n
             /\ v1 = PrimeiroVencimento(chamada'.arg.data_compra,
                                        chamada'.arg.vencimento_fatura)
             /\ \A i \in 1..n :
                   LET vi == NovasLinhas[i].vencimento_fatura IN
                   /\ vi[2] \in 1..12
                   /\ (vi[1] * 12 + vi[2]) - (v1[1] * 12 + v1[2]) = i - 1
                   /\ vi[3] = Min(v1[3], DiasNoMes(vi[1], vi[2]))]_vars

\* Three installments starting on 2025-12-31: the second and third fall in the
\* next year and the third is cut to the end of February.
C3_Witness ==
    /\ chamada.op = "adicionar_compra_cartao"
    /\ chamada.erro = SemErro
    /\ chamada.arg.parcelas = 3
    /\ Len(cartao) >= 3
    /\ cartao[Len(cartao) - 2].vencimento_fatura = <<2025, 12, 31>>
    /\ cartao[Len(cartao) - 1].vencimento_fatura = <<2026, 1, 31>>
    /\ cartao[Len(cartao)].vencimento_fatura = <<2026, 2, 28>>

\* C4: adding a card purchase with installment_count < 1 or total_amount < 0
\* fails with an error and adds no row to the card ledger.
C4_EntradaInvalida ==
    [][(chamada'.op = "adicionar_compra_cartao"
          /\ (chamada'.arg.parcelas < 1 \/ FNegativo(chamada'.arg.valor))) =>
          /\ chamada'.erro # SemErro
          /\ cartao' = cartao]_vars

\* C5: every row produced by adding a card purchase has pago = FALSE.
C5_NaoPagoNaCriacao ==
    [][CompraFeita => \A i \in 1..Len(NovasLinhas) : NovasLinhas[i].pago = FALSE]_vars

C5_Witness ==
    /\ chamada.op = "adicionar_compra_cartao"
    /\ chamada.erro = SemErro
    /\ chamada.arg.parcelas = 3
    /\ Len(cartao) >= 3
    /\ \A i \in 1..Len(cartao) : ~cartao[i].pago

\* C9: the description of installment i of N is the base description followed
\* by " (i/N)" when N > 1 and the unmodified base description when N = 1.
C9_Descricao ==
    [][(CompraFeita /\ chamada'.arg.parcelas >= 1) =>
          LET n == chamada'.arg.parcelas
              base == chamada'.arg.descricao
          IN /\ Len(NovasLinhas) = n
             /\ \A i \in 1..n :
                   NovasLinhas[i].descricao =
                       IF n = 1 THEN base
                       ELSE base \o " (" \o ToString(i) \o "/" \o ToString(n) \o ")"]_vars

\* Both cases occur: a single-installment row keeps "TV", the second of three
\* reads "TV (2/3)".
C9_Witness ==
    /\ chamada.op = "adicionar_compra_cartao"
    /\ chamada.erro = SemErro
    /\ Len(cartao) >= 1
    /\ \/ chamada.arg.parcelas = 1 /\ cartao[Len(cartao)].descricao = "TV"
       \/ chamada.arg.parcelas = 3 /\ cartao[Len(cartao) - 1].descricao = "TV (2/3)"

\* ------------------------------------------- card invoices (SpecFatura)
MesesFatura == {<<2026, 2>>, <<2026, 3>>}

ComprasDoCiclo ==
    /\ Len(compras) < MaxComprasCiclo
    /\ \E n \in 1..MaxParcelas :
          AdicionarCompraCartao(<<2026, 1, 15>>, "TV", FromInt(300), n, Nenhum)

NextFatura ==
    \/ ComprasDoCiclo
    \/ \E idx \in 0..(MaxLinhas - 1), flag \in BOOLEAN : UpdatePago(idx, flag)
    \/ \E m \in MesesFatura : MarcarFaturaPaga(m[2], m[1])
    \/ \E idx \in 0..(MaxLinhas - 1), flag \in BOOLEAN : MarkFatura(idx, flag)
    \/ \E idx \in 0..(MaxLinhas - 1) : DelCartao(idx)

SpecFatura == Init /\ [][NextFatura]_vars

\* C7: the batch mark-paid action for a due month (and card) sets the paid
\* flag on exactly the rows falling due in that month and year; every other
\* row keeps its paid flag and every row keeps all its other fields.
C7_FaturaDoMes ==
    [][chamada'.op \in {"mark_fatura", "marcar_fatura_paga"} =>
          /\ Len(cartao') = Len(cartao)
          /\ \A j \in 1..Len(cartao) :
                /\ cartao'[j] = [cartao[j] EXCEPT !.pago = cartao'[j].pago]
                /\ cartao'[j].pago =
                       IF NaFatura(cartao[j], chamada'.arg.mes, chamada'.arg.ano)
                       THEN chamada'.arg.pago
                       ELSE cartao[j].pago]_vars

\* The rows of cartao that purchase number k added.
LinhasDe(k) == {j \in 1..Len(cartao) : origem[j] = k}

\* C8 (as stated): in every state reachable by add-purchase, mark-paid and
\* delete-row operations, each purchase of N installments is represented by
\* exactly N rows with indices 1..N (each once), the purchase's date and count
\* N, and amounts that sum to the purchase's total.  (A purchase none of whose
\* rows is left in the ledger is no longer represented at all.)
C8_TodasAsParcelas ==
    \A k \in 1..Len(compras) :
        LET n == compras[k].parcelas
            linhas == [i \in 1..Cardinality(LinhasDe(k)) |->
                         cartao[CHOOSE j \in LinhasDe(k) :
                                   Cardinality({h \in LinhasDe(k) : h < j}) = i - 1]]
            emin == MenorExpoente(linhas, compras[k].valor[2])
        IN LinhasDe(k) # {} =>
              /\ Cardinality(LinhasDe(k)) = n
              /\ {cartao[j].parcela_atual : j \in LinhasDe(k)} = 1..n
              /\ \A j \in LinhasDe(k) :
                    /\ cartao[j].data_compra = compras[k].data_compra
                    /\ cartao[j].parcelas = n
              /\ SomaValores(linhas, emin) = Escala(compras[k].valor, emin)

\* C8 (amended): a purchase of N installments is represented by exactly N rows
\* from the step that adds it, and only a delete-row step changes that: it
\* removes one installment.  At all times the rows of a purchase carry
\* distinct indices within 1..N, the purchase's date and count N, and each the
\* amount total / N as rounded by the float division.
C8_ParcelasDaCompra ==
    [][\A k \in 1..Len(compras') :
          LET n == compras'[k].parcelas
              antes == {j \in 1..Len(cartao) : origem[j] = k}
              depois == {j \in 1..Len(cartao') : origem'[j] = k}
          IN /\ Cardinality(depois) <= n
             /\ k > Len(compras) => Cardinality(depois) = n
             /\ (k <= Len(compras) /\ chamada'.op # "del_cartao") =>
                    Cardinality(depois) = Cardinality(antes)
             /\ (k <= Len(compras) /\ chamada'.op = "del_cartao") =>
                    Cardinality(depois) \in {Cardinality(antes), Cardinality(antes) - 1}
             /\ \A j \in depois :
                   /\ cartao'[j].parcela_atual \in 1..n
                   /\ cartao'[j].data_compra = compras'[k].data_compra
                   /\ cartao'[j].parcelas = n
                   /\ Abs(n * Escala(cartao'[j].valor, Min(cartao'[j].valor[2],
                                                          compras'[k].valor[2]))
                          - Escala(compras'[k].valor, Min(cartao'[j].valor[2],
                                                         compras'[k].valor[2])))
                        * Pow2(MantBits)
                      <= Abs(Escala(compras'[k].valor, Min(cartao'[j].valor[2],
                                                          compras'[k].valor[2])))
                   /\ \A h \in depois :
                         cartao'[h].parcela_atual = cartao'[j].parcela_atual => h = j]_vars

\* A purchase of 3 installments of which one row was deleted: two rows remain.
C8_Witness ==
    /\ chamada.op = "del_cartao"
    /\ \E k \in 1..Len(compras) :
          /\ compras[k].parcelas = 3
          /\ Cardinality(LinhasDe(k)) = 2

\* ---------------------------------- income, expenses, investments (SpecLedger)
DataLancamento == <<2026, 1, 15>>
ValoresApi == {FromInt(-50), FromInt(50)}
ValoresFormulario == {FromInt(0), FromInt(50)}
RentMensal == FromInt(1)

Lancamentos == Len(receitas) + Len(gastos) + Len(investimentos)

NextLedger ==
    \/ /\ Lancamentos < MaxLinhas
       /\ \E v \in ValoresApi :
             \/ AdicionarReceita(DataLancamento, "Empresa", v, "Salário")
             \/ AdicionarGasto(DataLancamento, "Lazer", "Cinema", v, "PIX")
             \/ AdicionarInvestimento(DataLancamento, "CDB", v, RentMensal, "Casa")
    \/ /\ Lancamentos < MaxLinhas
       /\ \E v \in ValoresFormulario :
             \/ FormReceita(DataLancamento, "Empresa", v, "Salário")
             \/ FormGasto(DataLancamento, "Lazer", "Cinema", v, "PIX")
             \/ FormInv(DataLancamento, "CDB", v, RentMensal, "Casa")
    \/ \E idx \in 0..(MaxLinhas - 1), v \in ValoresFormulario :
          \/ SaveEditReceita(idx, DataLancamento, "Empresa", v, "Salário")
          \/ SaveEditGasto(idx, DataLancamento, "Lazer", "Cinema", v, "PIX")
          \/ SaveEditInv(idx, DataLancamento, "CDB", v, RentMensal, "Casa")
    \/ \E idx \in 0..(MaxLinhas - 1) :
          \/ DelReceita(idx)
          \/ DelGasto(idx)
          \/ DelInv(idx)

SpecLedger == Init /\ [][NextLedger]_vars

\* C10: in every reachable state every income, expense and investment entry
\* has an amount strictly greater than 0, and a step that adds or edits an
\* entry with a zero or negative amount fails and leaves the ledgers as they were.
C10_ValoresPositivos ==
    /\ \A i \in 1..Len(receitas) : FPositivo(receitas[i].valor)
    /\ \A i \in 1..Len(gastos) : FPositivo(gastos[i].valor)
    /\ \A i \in 1..Len(investimentos) : FPositivo(investimentos[i].valor)
    /\ ("valor" \in DOMAIN chamada.arg /\ ~FPositivo(chamada.arg.valor))
          => chamada.erro # SemErro

\* ------------------------------- persistence and Excel round trips (SpecCiclo)
\* Purchases of as many installments as the ledger bound of this specification
ParcelasExcel == {MaxLinhasExcel}

NextCiclo ==
    \/ /\ Len(compras) < MaxComprasExcel
       /\ \E n \in ParcelasExcel :
             /\ Len(cartao) + n <= MaxLinhasExcel
             /\ AdicionarCompraCartao(<<2026, 1, 15>>, "TV", FromInt(300), n, Nenhum)
    \/ \E idx \in 0..(MaxLinhasExcel - 1), flag \in BOOLEAN : UpdatePago(idx, flag)
    \/ \E m \in MesesFatura : MarcarFaturaPaga(m[2], m[1])
    \/ \E idx \in 0..(MaxLinhasExcel - 1) : DelCartao(idx)
    \/ SalvarDados
    \/ NovaSessao
    \/ /\ Len(orcamento) < MaxOrcamento
       /\ ExportarParaExcel
    \/ \E preferir_excel \in BOOLEAN :
          /\ ImportarDeExcel(preferir_excel)
          /\ Len(cartao') <= MaxLinhasExcel

SpecCiclo == Init /\ [][NextCiclo]_vars

\* A card row is identified by all its fields but the paid flag.
SemPago(linha) == [linha EXCEPT !.pago = FALSE]

\* The step leaves paid a row that was in the ledger before it, unpaid.
PagoVirou ==
    \E j \in 1..Len(cartao') :
        /\ cartao'[j].pago
        /\ \E h \in 1..Len(cartao) : SemPago(cartao[h]) = SemPago(cartao'[j])
        /\ \A h \in 1..Len(cartao) :
              SemPago(cartao[h]) = SemPago(cartao'[j]) => ~cartao[h].pago

CategoriasOrcamento == {"Cartão de Crédito", "Lazer"}
LimitesOrcamento == {800, 2000}

NextOrcamento ==
    \/ /\ Len(orcamento) < MaxCategorias
       /\ \E c \in CategoriasOrcamento, l \in LimitesOrcamento : AtualizarOrcamento(c, l)
    \/ /\ Len(orcamento) < MaxCategorias
       /\ ExportarParaExcel
    \/ \E preferir_excel \in BOOLEAN : ImportarDeExcel(preferir_excel)

SpecOrcamento == Init /\ [][NextOrcamento]_vars

SemRepetidas(linhas) ==
    \A i, j \in 1..Len(linhas) : linhas[i].categoria = linhas[j].categoria => i = j

\* C11: in every reachable state the budget table has at most one row per
\* category; atualizar_orcamento on an existing category replaces that row's
\* limit in place (row count unchanged) and on a new category appends exactly
\* one row; this holds after any sequence of budget updates and Excel imports.
C11_UmaLinhaPorCategoria ==
    [][/\ SemRepetidas(orcamento')
       /\ chamada'.op = "atualizar_orcamento" =>
             LET c == chamada'.arg.categoria
                 l == chamada'.arg.limite_mensal
             IN IF \E i \in 1..Len(orcamento) : orcamento[i].categoria = c
                THEN /\ Len(orcamento') = Len(orcamento)
                     /\ \A i \in 1..Len(orcamento) :
                           orcamento'[i] = IF orcamento[i].categoria = c
                                           THEN [categoria |-> c, limite_mensal |-> l]
                                           ELSE orcamento[i]
                ELSE orcamento' = Append(orcamento, [categoria |-> c, limite_mensal |-> l])
      ]_vars

\* The table is the table antes without its row of index k (counted from 0).
SemALinha(antes, depois, k) ==
    /\ Len(depois) = Len(antes) - 1
    /\ \A j \in 0..(Len(antes) - 1) :
          /\ j < k => depois[j + 1] = antes[j + 1]
          /\ j > k => depois[j] = antes[j + 1]

\* C12: deleting the row at index k of a ledger of length n yields a ledger
\* of length n - 1, indexed 0..n-2, in which the rows formerly at indices < k
\* keep their index, the rows formerly at indices j > k are at j - 1, and no
\* row's content changes; the other ledgers are left as they were.
C12_DeletarReindexa ==
    [][/\ chamada'.op = "del_gasto" =>
             /\ SemALinha(gastos, gastos', chamada'.arg.idx)
             /\ UNCHANGED <<receitas, investimentos, cartao, orcamento>>
       /\ chamada'.op = "del_receita" =>
             /\ SemALinha(receitas, receitas', chamada'.arg.idx)
             /\ UNCHANGED <<gastos, investimentos, cartao, orcamento>>
       /\ chamada'.op = "del_inv" =>
             /\ SemALinha(investimentos, investimentos', chamada'.arg.idx)
             /\ UNCHANGED <<receitas, gastos, cartao, orcamento>>
      ]_vars

\* The middle row of three expenses, not all alike, has been deleted.
C12_Witness ==
    /\ chamada.op = "del_gasto"
    /\ chamada.arg.idx = 1
    /\ Len(gastos) = 2
    /\ gastos[1] # gastos[2]

\* --------------------------------------- investment valuation (SpecRendimentos)
DatasInvestimento == {<<2026, 1, 15>>, <<2026, 11, 2>>}
ValoresInvestimento == {FromInt(0), FromInt(1000)}
RentInvestimento == {FromInt(0), FromInt(1)}

NextRendimentos ==
    \/ /\ Len(investimentos) < MaxInvestimentos
       /\ \E d \in DatasInvestimento, v \in ValoresInvestimento, r \in RentInvestimento :
             \/ AdicionarInvestimento(d, "CDB", v, r, "Casa")
             \/ FormInv(d, "CDB", v, r, "Casa")
    \/ \E idx \in 0..(MaxInvestimentos - 1) : DelInv(idx)
    \/ Dashboard
    \/ VerInvestimentos
    \/ SalvarDados
    \/ NovaSessao

SpecRendimentos == Init /\ [][NextRendimentos]_vars

\* x + y, x * y and x ** n for floats, correctly rounded
FSoma(x, y) ==
    IF x[1] = 0 THEN y
    ELSE IF y[1] = 0 THEN x
    ELSE LET e == Min(x[2], y[2]) IN Norm(Escala(x, e) + Escala(y, e), e)

FOposto(x) == <<-x[1], x[2]>>

FProd(x, y) == Norm(x[1] * y[1], x[2] + y[2])

RECURSIVE FPot(_, _)
FPot(x, n) == IF n <= 0 THEN FromInt(1) ELSE FProd(FPot(x, n - 1), x)

\* x / y for floats, y nonzero
FQuoc(x, y) ==
    LET q == FDiv(x, y[1]) IN IF q[1] = 0 THEN q ELSE <<q[1], q[2] - y[2]>>

\* principal * (1 + monthly_rate/100) ^ elapsed_months
ValorComposto(valor, rentabilidade_mensal, meses) ==
    FProd(valor, FPot(FSoma(FromInt(1), FDiv(rentabilidade_mensal, 100)), meses))

\* C13: the valuation returns one record per investment entry, with current
\* value = principal * (1 + monthly_rate/100)^elapsed_months and yield =
\* current value - principal; with 0 elapsed months the current value is the
\* principal and the yield is 0.
C13_Valorizacao ==
    (chamada.op = "ver_investimentos" /\ Len(investimentos) > 0) =>
        /\ chamada.erro = SemErro
        /\ Len(chamada.arg) = Len(investimentos)
        /\ \A i \in 1..Len(investimentos) :
              LET r == chamada.arg[i]
                  v == investimentos[i]
              IN /\ r.valor_atual =
                        ValorComposto(v.valor, v.rentabilidade_mensal, r.meses_decorridos)
                 /\ r.rendimento_acumulado = FSoma(r.valor_atual, FOposto(v.valor))
                 /\ r.meses_decorridos = 0 =>
                        (r.valor_atual = v.valor /\ r.rendimento_acumulado = <<0, 0>>)

\* The five stored fields of an investment entry
CamposInvestimento == {"data", "tipo", "objetivo", "valor", "rentabilidade_mensal"}

SoCamposBase(linhas) == \A i \in 1..Len(linhas) : DOMAIN linhas[i] = CamposInvestimento

RECURSIVE SomaFloat(_)
SomaFloat(linhas) ==
    IF linhas = <<>> THEN <<0, 0>>
    ELSE FSoma(SomaFloat(SubSeq(linhas, 1, Len(linhas) - 1)), linhas[Len(linhas)].valor)

\* C15: the dashboard reports the portfolio yield percentage
\* total_yield / total_principal * 100 when total_principal > 0 and 0 when it
\* is 0, never a division error.
C15_PercentualRendimento ==
    (chamada.op = "dashboard" /\ Len(investimentos) > 0) =>
        /\ chamada.erro = SemErro
        /\ LET total_investido == SomaFloat(investimentos)
           IN chamada.arg.percentual =
                  IF FPositivo(total_investido)
                  THEN FMul(FQuoc(chamada.arg.rendimento_total, total_investido), 100)
                  ELSE <<0, 0>>

\* ------------------------------------- two sessions, two users (SpecSessoes)
\* Identifiers typed at login
Nomes == {<<"z", "é">>, <<"z", "á">>, <<"Z", "é">>, <<" ">>}
FontesSessao == {"Empresa", "Bico"}

NextSessoes ==
    \/ \E user_input \in Nomes : Login(user_input)
    \/ \E user_input \in Nomes : AbrirSessao(user_input)
    \/ TrocarSessao
    \/ /\ Len(receitas) < MaxReceitasSessao
       /\ \E f \in FontesSessao : FormReceita(DataLancamento, f, FromInt(50), "Salário")

SpecSessoes == Init /\ [][NextSessoes]_vars

\* Both sessions hold an instance on the same file base
MesmaBase ==
    /\ servidor.outra.aberta
    /\ servidor.outra.arquivo_base = servidor.arquivo_base

\* C16: two sessions on the same user's storage do not protect each other's
\* writes: when a session adds and saves, the stored table becomes exactly that
\* session's table, whatever the other session had stored, and no error is
\* reported; so after A loads, B loads, A adds and saves, B adds and saves,
\* the stored table lacks the row A saved (C16_Witness).
C16_EscritaPerdida ==
    (chamada.op = "form_receita" /\ MesmaBase) =>
        /\ chamada.erro = SemErro
        /\ arquivos["receitas"].linhas = EscreverCsv("receitas", receitas).linhas

C16_Witness ==
    /\ chamada.op = "form_receita"
    /\ chamada.erro = SemErro
    /\ MesmaBase
    /\ servidor.sessao = "B"
    /\ Len(servidor.outra.receitas) = 1
    /\ Len(arquivos["receitas"].linhas) = 1
    /\ arquivos["receitas"].linhas[1] # servidor.outra.receitas[1]

\* Both sessions have logged in, with different identifiers
DoisUsuarios ==
    /\ servidor.outra.aberta
    /\ servidor.user_slug # Nenhum
    /\ servidor.outra.user_slug # Nenhum
    /\ servidor.nome # servidor.outra.nome

\* C17: users with distinct identifiers operate on separate stores: whenever
\* two sessions are logged in with different identifiers their instances use
\* different files, and no operation of one session changes the files of the
\* other.
C17_StoresSeparados ==
    [][DoisUsuarios' =>
          /\ servidor'.arquivo_base # servidor'.outra.arquivo_base
          /\ (DoisUsuarios /\ servidor'.sessao = servidor.sessao) =>
                 ArquivosDe(servidor.outra.arquivo_base)' =
                     ArquivosDe(servidor.outra.arquivo_base)]_vars

\* The table of the instance being served, by name
Tabela(t) ==
    CASE t = "receitas" -> receitas
      [] t = "gastos" -> gastos
      [] t = "investimentos" -> investimentos
      [] t = "cartao" -> cartao
      [] t = "orcamento" -> orcamento

\* The step is a login that built a new ControleFinanceiro
InstanciaCriada ==
    /\ chamada'.op = "login"
    /\ chamada'.erro = SemErro
    /\ (servidor'.user_slug # servidor.user_slug \/ servidor'.sessao # servidor.sessao)

\* C18 (as stated): loading a user whose file for a table is missing yields
\* an empty table (zero rows), for each of the five tables.
C18_TabelaVaziaSempre ==
    [][InstanciaCriada =>
          \A t \in Tabelas : ~arquivos'[t].existe => Len(Tabela(t)') = 0]_vars

\* C18 (amended): a missing file yields zero rows with the table's columns for
\* receitas, gastos, investimentos and cartao, and the default budget (one row
\* 'Cartão de Crédito', 1500, columns categoria and limite_mensal) for orcamento.
C18_ArquivoAusente ==
    [][InstanciaCriada =>
          \A t \in Tabelas :
              /\ ~arquivos'[t].existe =>
                     Tabela(t)' = IF t = "orcamento" THEN OrcamentoPadrao ELSE <<>>
              /\ \A i \in 1..Len(Tabela(t)') : DOMAIN Tabela(t)'[i] = ColunasVazia(t)]_vars

C18_Witness ==
    /\ chamada.op = "login"
    /\ chamada.erro = SemErro
    /\ servidor.sessao = "B"
    /\ DOMAIN servidor.disco # {}
    /\ \A t \in Tabelas : ~arquivos[t].existe
    /\ receitas = <<>>
    /\ orcamento = OrcamentoPadrao

\* ------------------------------------------- save and load (SpecPersistencia)
\* Texts typed in the "Descrição" field of the forms (it may be left blank)
TextosFormulario == {"Empresa", ""}

NextPersistencia ==
    \/ /\ Len(receitas) + Len(gastos) < MaxLancamentos
       /\ \E texto \in TextosFormulario :
             \/ FormReceita(DataLancamento, texto, FromInt(50), "Salário")
             \/ FormGasto(DataLancamento, "Lazer", texto, FromInt(50), "PIX")
    \/ /\ Len(compras) < MaxComprasCiclo
       /\ \E n \in 1..MaxParcelas :
             AdicionarCompraCartao(<<2026, 1, 15>>, "TV", FromInt(100), n, Nenhum)
    \/ /\ Len(investimentos) < MaxInvestimentos
       /\ AdicionarInvestimento(DataLancamento, "CDB", FromInt(1000), RentMensal, "Casa")
    \/ /\ Len(orcamento) < MaxOrcamento
       /\ \E c \in CategoriasOrcamento : AtualizarOrcamento(c, 800)
    \/ SalvarDados
    \/ NovaSessao

SpecPersistencia == Init /\ [][NextPersistencia]_vars

\* The files hold what salvar_dados writes for the tables in memory
Salvo == arquivos = ArquivosSalvos(receitas, gastos, investimentos, cartao, orcamento)

\* C19: save followed by a fresh load round-trips: a new ControleFinanceiro
\* built over the files salvar_dados wrote holds, for each of the five tables,
\* the same rows in the same order as the tables in memory at save time.
C19_SalvarCarregar ==
    [][(Salvo /\ chamada'.op = "init") => tabelas' = tabelas]_vars

\* ------------------------------------------------ failing calls (SpecErros)
\* The handlers of the front ends
OperacoesGUI ==
    {"form_receita", "form_gasto", "form_inv", "form_cartao", "save_edit_gasto",
     "save_edit_receita", "save_edit_inv", "del_gasto", "del_receita", "del_inv",
     "update_pago", "mark_fatura", "del_cartao", "dashboard", "ver_investimentos", "login"}

\* The handlers whose calls of cf sit in "try: ... except Exception as e: st.error(...)"
ComTry == {"form_receita", "form_gasto", "form_inv", "form_cartao"}

\* A blank identifier and a valid one
NomesErros == {<<" ">>, <<"z", "é">>}

NextErros ==
    \/ ComprasDoCiclo
    \/ \E dia \in DiasVencimento :
          FormCartao(<<2025, 12, 11>>, "TV", FromInt(300), MaxParcelas,
                     "Cartão Principal", dia, <<2025, 12, 1>>)
    \/ \E idx \in 0..(MaxLinhas - 1), flag \in BOOLEAN : UpdatePago(idx, flag)
    \/ \E idx \in 0..(MaxLinhas - 1), flag \in BOOLEAN : MarkFatura(idx, flag)
    \/ /\ Len(investimentos) < MaxInvestimentos
       /\ \E v \in ValoresInvestimento : FormInv(DataLancamento, "CDB", v, RentMensal, "Casa")
    \/ Dashboard
    \/ \E user_input \in NomesErros : Login(user_input)

SpecErros == Init /\ [][NextErros]_vars

\* C20: when an operation invoked from the UI fails, the error is caught at
\* the UI boundary, every ledger (and its stored copy) is left exactly as it
\* was before the operation, and the session is left as it was, so that it
\* accepts and executes further operations as if the failed one had not been made.
C20_ErroCapturado ==
    [][(chamada'.op \in OperacoesGUI /\ chamada'.erro # SemErro) =>
          /\ chamada'.op \in ComTry
          /\ tabelas' = tabelas
          /\ arquivos' = arquivos
          /\ servidor' = servidor]_vars

\* ------------------------------------------- card definitions (SpecCartoes)
NomesCartao == {"Cartão Principal", "Nubank"}

NextCartoes ==
    \/ ComprasDoCiclo
    \/ \E cartao_nome \in NomesCartao, dia \in DiasVencimento : SalvarCartao(cartao_nome, dia)
    \/ \E c_cartao \in CartoesDisponiveis, c_parc \in 1..MaxParcelas :
          FormCartao(<<2025, 12, 11>>, "TV", FromInt(300), c_parc, c_cartao, 10,
                     <<2025, 12, 1>>)
    \/ \E c_parc \in 1..MaxParcelas :
          FormCartaoPublico(<<2025, 12, 11>>, "TV", FromInt(300), c_parc)
    \/ \E idx \in 0..(MaxLinhas - 1), flag \in BOOLEAN : UpdatePago(idx, flag)
    \/ \E idx \in 0..(MaxLinhas - 1) : DelCartao(idx)

SpecCartoes == Init /\ [][NextCartoes]_vars

\* C21: a card purchase that references a card not among the defined cards is
\* rejected with an error and adds no row to the card ledger; a purchase that
\* references a defined card is accepted and its installments are added.
C21_CartaoDefinido ==
    [][chamada'.op = "form_cartao" =>
          IF chamada'.arg.cartao \in CartoesDisponiveis
          THEN /\ chamada'.erro = SemErro
               /\ Len(cartao') = Len(cartao) + chamada'.arg.parcelas
          ELSE /\ chamada'.erro # SemErro
               /\ cartao' = cartao]_vars

\* Every row of the sequence antes is a row of the sequence depois
Permanecem(antes, depois) ==
    \A i \in 1..Len(antes) : \E j \in 1..Len(depois) : depois[j] = antes[i]

\* The step is an import that ran to its end
Importou == chamada'.op = "importar_de_excel" /\ chamada'.erro = SemErro

\* C22: an import with preferir_excel=False only adds records: every row that
\* was in a table before the import is still there afterwards with the same
\* field values, for all five tables including the budget.
C22_SoAdiciona ==
    [][(Importou /\ ~chamada'.arg.preferir_excel) =>
          /\ Permanecem(receitas, receitas')
          /\ Permanecem(gastos, gastos')
          /\ Permanecem(investimentos, investimentos')
          /\ Permanecem(cartao, cartao')
          /\ Permanecem(orcamento, orcamento')]_vars

\* The records a workbook holds for a table: those read from its sheet, none
\* when the workbook has no such sheet
RegistrosDaAba(aba, lidos) == IF aba \in DOMAIN planilha.abas THEN lidos ELSE <<>>

\* C23: an import with preferir_excel=True makes the workbook the source of
\* truth: afterwards every table in memory and its stored file hold exactly
\* the records of the workbook, and no record that was only in the previous
\* data survives.
C23_ExcelFonte ==
    [][(Importou /\ chamada'.arg.preferir_excel) =>
          /\ gastos' = RegistrosDaAba("Gastos", GastosLidos(planilha.abas["Gastos"]))
          /\ receitas' = RegistrosDaAba("Receitas", ReceitasLidas(planilha.abas["Receitas"]))
          /\ investimentos' = RegistrosDaAba("Investimentos",
                                  InvestimentosLidos(planilha.abas["Investimentos"]))
          /\ cartao' = RegistrosDaAba("Cartão de Crédito",
                                      CartaoLido(planilha.abas["Cartão de Crédito"]))
          /\ orcamento' = RegistrosDaAba("Orçamento", OrcamentoLido(planilha.abas["Orçamento"]))
          /\ arquivos' = ArquivosSalvos(receitas', gastos', investimentos', cartao',
                                        orcamento')]_vars


\* The set of records of a table
Registros(tabela) == {tabela[i] : i \in 1..Len(tabela)}

\* C24: export followed by import is a round trip: importing, with
\* preferir_excel=True, the workbook that an export of the present tables
\* wrote leaves each of the five tables with the same set of records and
\* the same field values.
C24_IdaEVolta ==
    [][(Importou /\ chamada'.arg.preferir_excel /\ planilha = PlanilhaCompleta) =>
          /\ Registros(receitas') = Registros(receitas)
          /\ Registros(gastos') = Registros(gastos)
          /\ Registros(investimentos') = Registros(investimentos)
          /\ Registros(cartao') = Registros(cartao)
          /\ Registros(orcamento') = Registros(orcamento)]_vars


\* C25: an import from a workbook that does not exist fails with a
\* file-not-found error before any backup is made, and leaves every table in
\* memory and every stored file as it was.
C25_ArquivoInexistente ==
    [][(chamada'.op = "importar_de_excel" /\ ~planilha.existe) =>
          /\ chamada'.erro = "FileNotFoundError"
          /\ UNCHANGED <<receitas, gastos, investimentos, cartao, orcamento, arquivos,
                         backup>>]_vars

\* a failed import, with an installment in memory, stored files and no backup
C25_Witness ==
    /\ chamada.op = "importar_de_excel"
    /\ chamada.erro = "FileNotFoundError"
    /\ Len(cartao) > 0
    /\ arquivos["cartao"].existe
    /\ ~backup.existe


\* ------------------------------------------------------ monthly history
\* The page "Meses Anteriores" of the public front end.

Digito(n) == <<"0", "1", "2", "3", "4", "5", "6", "7", "8", "9">>[n + 1]

\* Timestamp.strftime('%Y-%m'): four digits of the year (a Timestamp's year
\* lies in 1677..2262), a hyphen, two digits of the month
Strftime_Ym(d) ==
    <<Digito(d[1] \div 1000), Digito((d[1] \div 100) % 10), Digito((d[1] \div 10) % 10),
      Digito(d[1] % 10), "-", Digito(d[2] \div 10), Digito(d[2] % 10)>>

\* ord(c) of the characters of a month text
Ord(c) == IF c = "-" THEN 45 ELSE 48 + (CHOOSE n \in 0..9 : Digito(n) = c)

\* a < b for two texts, as the sorted group keys compare
TextoMenor(a, b) ==
    \/ \E i \in 1..Min(Len(a), Len(b)) :
          /\ \A j \in 1..(i - 1) : a[j] = b[j]
          /\ Ord(a[i]) < Ord(b[i])
    \/ /\ Len(a) < Len(b)
       /\ \A j \in 1..Len(a) : a[j] = b[j]

\* df[coluna].sum() over the rows of a group, in row order
RECURSIVE SomaColuna(_, _)
SomaColuna(linhas, coluna) ==
    IF linhas = <<>> THEN <<0, 0>>
    ELSE FSoma(SomaColuna(SubSeq(linhas, 1, Len(linhas) - 1), coluna),
               linhas[Len(linhas)][coluna])

\* The rows of df whose month text is k
DoGrupo(df, coluna_data, k) ==
    LET Nele(linha) == Strftime_Ym(linha[coluna_data]) = k
    IN SelectSeq(df, Nele)

\* A variant that keeps the groups in order of first appearance
\* (groupby(..., sort=False))
serie_mensal_porAparicao(df, coluna_data, coluna_valor) ==
    LET primeiras == {i \in 1..Len(df) :
                        \A j \in 1..(i - 1) :
                            Strftime_Ym(df[j][coluna_data]) # Strftime_Ym(df[i][coluna_data])}
        Iesima(n) == CHOOSE i \in primeiras :
                        Cardinality({j \in primeiras : j < i}) = n - 1
    IN [n \in 1..Cardinality(primeiras) |->
          LET k == Strftime_Ym(df[Iesima(n)][coluna_data])
          IN [mes |-> k, valor |-> SomaColuna(DoGrupo(df, coluna_data, k), coluna_valor)]]

\* _serie_mensal(df, coluna_data, coluna_valor): groupby('mes')[coluna].sum(),
\* one entry per month text, the texts in sorted order; the empty frame gives
\* the empty series
serie_mensal(df, coluna_data, coluna_valor) ==
    LET chaves == {Strftime_Ym(df[i][coluna_data]) : i \in 1..Len(df)}
        Iesima(n) == CHOOSE k \in chaves :
                        Cardinality({c \in chaves : TextoMenor(c, k)}) = n - 1
    IN [n \in 1..Cardinality(chaves) |->
          [mes |-> Iesima(n),
           valor |-> SomaColuna(DoGrupo(df, coluna_data, Iesima(n)), coluna_valor)]]

\* Page "Meses Anteriores": the four monthly series (the card ledger has no
\* 'mes_fatura' column, so its month is the text of vencimento_fatura); the
\* page changes nothing
MesesAnteriores ==
    /\ chamada' = [op |-> "meses_anteriores", erro |-> SemErro,
                   arg |-> [rec_mes |-> serie_mensal(receitas, "data", "valor"),
                            gas_mes |-> serie_mensal(gastos, "data", "valor"),
                            inv_mes |-> serie_mensal(investimentos, "data", "valor"),
                            cart_mes |-> serie_mensal(cartao, "vencimento_fatura",
                                                      "valor")]]
    /\ UNCHANGED <<receitas, gastos, investimentos, cartao, orcamento, arquivos, planilha,
                   backup, origem, compras, servidor>>

MaxMensal == 3

DatasMensal == {<<2025, 12, 31>>, <<2026, 1, 1>>, <<2026, 1, 31>>}

\* 2^MantBits + 1 is the first whole number a float cannot hold
ValoresMensal == {FromInt(Pow2(MantBits)), FromInt(1)}

NextMensal ==
    \/ /\ Len(receitas) < MaxMensal
       /\ \E d \in DatasMensal, v \in ValoresMensal :
             AdicionarReceita(d, "Empresa", v, "Salário")
    \/ /\ Len(gastos) < 1
       /\ AdicionarGasto(<<2026, 1, 31>>, "Casa", "Aluguel", FromInt(50), "PIX")
    \/ /\ Len(investimentos) < 1
       /\ AdicionarInvestimento(<<2025, 12, 31>>, "CDB", FromInt(1000), RentMensal, "Casa")
    \/ /\ Len(compras) < 1
       /\ \E n \in 1..2 : AdicionarCompraCartao(<<2025, 12, 11>>, "TV", FromInt(300), n, Nenhum)
    \/ MesesAnteriores

SpecMensal == Init /\ [][NextMensal]_vars

\* The number a month text stands for: year * 12 + month
MesDoTexto(t) ==
    (1000 * (Ord(t[1]) - 48) + 100 * (Ord(t[2]) - 48) + 10 * (Ord(t[3]) - 48)
       + (Ord(t[4]) - 48)) * 12 + 10 * (Ord(t[6]) - 48) + (Ord(t[7]) - 48)

MesDaData(d) == d[1] * 12 + d[2]

\* The series of a page and the frame and date column each one is made from
SeriesMensais ==
    {<<"rec_mes", receitas, "data">>, <<"gas_mes", gastos, "data">>,
     <<"inv_mes", investimentos, "data">>, <<"cart_mes", cartao, "vencimento_fatura">>}

\* A series has one entry per month in which a row of the frame falls, in
\* the order of the months
UmPorMes(serie, df, coluna_data) ==
    /\ \A j, k \in 1..Len(serie) : j < k => MesDoTexto(serie[j].mes) < MesDoTexto(serie[k].mes)
    /\ {MesDoTexto(serie[j].mes) : j \in 1..Len(serie)}
          = {MesDaData(df[i][coluna_data]) : i \in 1..Len(df)}

\* The lowest exponent among the values of a frame and of its series
ExpoenteComum(serie, df) == MenorExpoente(serie, MenorExpoente(df, 0))

RECURSIVE SomaAbsoluta(_, _)
SomaAbsoluta(linhas, emin) ==
    IF linhas = <<>> THEN 0
    ELSE Abs(Escala(Head(linhas).valor, emin)) + SomaAbsoluta(Tail(linhas), emin)

MostraMeses == chamada.op = "meses_anteriores"

\* C26 (as stated): the monthly series groups every row into exactly one
\* year-month, is ordered by month, has a month only if a row falls in it,
\* and its values add up to the column total.
C26_SomaExata ==
    MostraMeses =>
       \A s \in SeriesMensais :
          LET serie == chamada.arg[s[1]]
              emin == ExpoenteComum(serie, s[2])
          IN /\ UmPorMes(serie, s[2], s[3])
             /\ SomaValores(serie, emin) = SomaValores(s[2], emin)

\* C26 (amended): the same grouping and order, and the values add up to the
\* column total up to the rounding of the floating-point additions: the
\* difference is at most n unit roundoffs of the sum of the absolute values
\* of the n rows.
C26_SomaTolerancia ==
    MostraMeses =>
       \A s \in SeriesMensais :
          LET serie == chamada.arg[s[1]]
              emin == ExpoenteComum(serie, s[2])
          IN /\ UmPorMes(serie, s[2], s[3])
             /\ Abs(SomaValores(serie, emin) - SomaValores(s[2], emin)) * Pow2(MantBits)
                   <= Len(s[2]) * SomaAbsoluta(s[2], emin)

\* three receipts in two months of two years, first entered for the later
\* month, whose sum is rounded
C26_Witness ==
    /\ MostraMeses
    /\ Len(receitas) = 3
    /\ Len(chamada.arg.rec_mes) = 2
    /\ MesDaData(receitas[1].data) > MesDaData(receitas[2].data)
    /\ LET emin == ExpoenteComum(chamada.arg.rec_mes, receitas)
       IN SomaValores(chamada.arg.rec_mes, emin) # SomaValores(receitas, emin)
    /\ Len(chamada.arg.cart_mes) = 2


\* The new table is the old one with exactly one row after it
MaisUmaNoFim(antes, depois) ==
    /\ Len(depois) = Len(antes) + 1
    /\ SubSeq(depois, 1, Len(antes)) = antes

\* C27: adicionar_receita, adicionar_gasto and adicionar_investimento each
\* append exactly one row at the end of their own ledger, leave its existing
\* rows unchanged in the same positions, and leave every other ledger
\* unchanged.
C27_AcrescentaUmaLinha ==
    [][/\ chamada'.op = "adicionar_receita" =>
             MaisUmaNoFim(receitas, receitas')
             /\ UNCHANGED <<gastos, investimentos, cartao>>
       /\ chamada'.op = "adicionar_gasto" =>
             MaisUmaNoFim(gastos, gastos')
             /\ UNCHANGED <<receitas, investimentos, cartao>>
       /\ chamada'.op = "adicionar_investimento" =>
             MaisUmaNoFim(investimentos, investimentos')
             /\ UNCHANGED <<receitas, gastos, cartao>>]_vars

\* a third receipt, different from the first, added with rows in every ledger
C27_Witness ==
    /\ chamada.op = "adicionar_receita"
    /\ Len(receitas) = 3
    /\ receitas[3] # receitas[1]
    /\ Len(gastos) > 0
    /\ Len(investimentos) > 0
    /\ Len(cartao) > 0


ZipCorrompido == [legivel |-> FALSE, arquivos |-> [t \in {} |-> Ausente]]

\* restore_from_zip(user_slug, up) behind the button "Restaurar agora": each
\* file of the user found in the archive is written over the stored one; on
\* success the script reruns and get_cf returns the instance the session
\* already holds, without carregar_dados. An archive that cannot be read is
\* reported and nothing is written.
RestaurarAgora(zip) ==
    /\ IF ~zip.legivel
       THEN /\ chamada' = [op |-> "restore_from_zip", erro |-> "Erro ao restaurar backup",
                           arg |-> Nenhum]
            /\ UNCHANGED arquivos
       ELSE /\ arquivos' = [t \in Tabelas |-> IF t \in DOMAIN zip.arquivos THEN zip.arquivos[t]
                                              ELSE arquivos[t]]
            /\ chamada' = [op |-> "restore_from_zip", erro |-> SemErro,
                           arg |-> [zip |-> zip]]
    /\ UNCHANGED <<receitas, gastos, investimentos, cartao, orcamento, planilha, backup,
                   origem, compras, servidor>>

ReceitaRestaurada == NovaReceita(<<2025, 12, 31>>, "Restaurada", FromInt(1000), "Salário")

\* Archives a user can upload: a backup downloaded when one receipt was
\* stored, the receipts file of that backup alone, and a file that is no zip
ZipsBackup ==
    {[legivel |-> TRUE,
      arquivos |-> ArquivosSalvos(<<ReceitaRestaurada>>, <<>>, <<>>, <<>>, OrcamentoPadrao)],
     [legivel |-> TRUE,
      arquivos |-> [t \in {"receitas"} |-> EscreverCsv("receitas", <<ReceitaRestaurada>>)]],
     ZipCorrompido}

NextRestauracao ==
    \/ /\ Len(receitas) + Len(gastos) < MaxLinhas
       /\ \E v \in ValoresFormulario :
             \/ FormReceita(DataLancamento, "Empresa", v, "Salário")
             \/ FormGasto(DataLancamento, "Lazer", "Cinema", v, "PIX")
    \/ \E zip \in ZipsBackup : RestaurarAgora(zip)
    \/ NovaSessao

SpecRestauracao == Init /\ [][NextRestauracao]_vars

\* C29: after restore_from_zip reports success, the next add-and-save in
\* that session produces stored files that contain every restored row plus
\* the added row: the restored rows are not overwritten by the tables the
\* session held before the restore.
C29_RestauradasPermanecem ==
    [][(/\ chamada.op = "restore_from_zip"
        /\ chamada.erro = SemErro
        /\ chamada'.op \in {"form_receita", "form_gasto"}
        /\ chamada'.erro = SemErro) =>
          /\ \A t \in DOMAIN chamada.arg.zip.arquivos :
                Permanecem(chamada.arg.zip.arquivos[t].linhas, arquivos'[t].linhas)
          /\ chamada'.op = "form_receita" =>
                arquivos'["receitas"].linhas[Len(arquivos'["receitas"].linhas)]
                   = receitas'[Len(receitas')]
          /\ chamada'.op = "form_gasto" =>
                arquivos'["gastos"].linhas[Len(arquivos'["gastos"].linhas)]
                   = gastos'[Len(gastos')]]_vars


\* ------------------------------------------------------ monthly summary

\* (df[coluna].dt.month == mes) & (df[coluna].dt.year == ano)
DoMes(df, coluna_data, mes, ano) ==
    LET Nele(linha) == linha[coluna_data][2] = mes /\ linha[coluna_data][1] = ano
    IN SelectSeq(df, Nele)

\* df[df['pago'] == False]
NaoPagas(df) ==
    LET EmAberto(linha) == linha.pago = FALSE
    IN SelectSeq(df, EmAberto)

\* A variant whose card total counts the paid installments too
resumo_mensal_comPagas(mes, ano) ==
    LET total_receitas == SomaColuna(DoMes(receitas, "data", mes, ano), "valor")
        total_gastos == SomaColuna(DoMes(gastos, "data", mes, ano), "valor")
        total_investimentos == SomaColuna(DoMes(investimentos, "data", mes, ano), "valor")
        total_cartao == SomaColuna(DoMes(cartao, "vencimento_fatura", mes, ano), "valor")
    IN [mes |-> mes, ano |-> ano, receitas |-> total_receitas, gastos |-> total_gastos,
        investimentos |-> total_investimentos, cartao |-> total_cartao,
        saldo |-> FSoma(FSoma(FSoma(total_receitas, FOposto(total_gastos)),
                              FOposto(total_investimentos)),
                        FOposto(total_cartao))]

\* cf.resumo_mensal(mes, ano): the dictionary it returns (an empty table
\* gives the total 0, as the sum of no row does)
resumo_mensal(mes, ano) ==
    LET total_receitas == SomaColuna(DoMes(receitas, "data", mes, ano), "valor")
        total_gastos == SomaColuna(DoMes(gastos, "data", mes, ano), "valor")
        total_investimentos == SomaColuna(DoMes(investimentos, "data", mes, ano), "valor")
        total_cartao == SomaColuna(NaoPagas(DoMes(cartao, "vencimento_fatura", mes, ano)),
                                   "valor")
    IN [mes |-> mes, ano |-> ano, receitas |-> total_receitas, gastos |-> total_gastos,
        investimentos |-> total_investimentos, cartao |-> total_cartao,
        saldo |-> FSoma(FSoma(FSoma(total_receitas, FOposto(total_gastos)),
                              FOposto(total_investimentos)),
                        FOposto(total_cartao))]

\* A call of cf.resumo_mensal(mes, ano): it prints and returns the summary
\* and changes no table (every card row has its 'pago' column)
ResumoMensal(mes, ano) ==
    /\ chamada' = [op |-> "resumo_mensal", erro |-> SemErro, arg |-> resumo_mensal(mes, ano)]
    /\ UNCHANGED <<receitas, gastos, investimentos, cartao, orcamento, arquivos, planilha,
                   backup, origem, compras, servidor>>

MaxResumo == 2

DatasResumo == {<<2026, 2, 1>>, <<2026, 3, 1>>}

ValoresResumo == {FromInt(300), FromInt(100)}

NextResumo ==
    \/ /\ Len(compras) < MaxResumo
       /\ \E v \in ValoresResumo, n \in 1..2 :
             AdicionarCompraCartao(<<2026, 1, 15>>, "TV", v, n, Nenhum)
    \/ /\ Len(receitas) + Len(gastos) + Len(investimentos) < MaxResumo
       /\ \E d \in DatasResumo :
             \/ AdicionarReceita(d, "Empresa", FromInt(1000), "Salário")
             \/ AdicionarGasto(d, "Lazer", "Cinema", FromInt(50), "PIX")
             \/ AdicionarInvestimento(d, "CDB", FromInt(100), RentMensal, "Casa")
    \/ \E m \in MesesFatura : MarcarFaturaPaga(m[2], m[1])
    \/ \E m \in MesesFatura : ResumoMensal(m[2], m[1])

SpecResumo == Init /\ [][NextResumo]_vars

\* The sum of the valor of the rows that fall in a month, optionally of the
\* unpaid rows only, added in row order
RECURSIVE SomaDoMes(_, _, _, _, _)
SomaDoMes(linhas, coluna_data, mes, ano, so_em_aberto) ==
    IF linhas = <<>> THEN <<0, 0>>
    ELSE LET ultima == linhas[Len(linhas)]
             antes == SomaDoMes(SubSeq(linhas, 1, Len(linhas) - 1), coluna_data, mes, ano,
                                so_em_aberto)
         IN IF /\ ultima[coluna_data][1] = ano
               /\ ultima[coluna_data][2] = mes
               /\ so_em_aberto => ~ultima.pago
            THEN FSoma(antes, ultima.valor)
            ELSE antes

\* C30: resumo_mensal(mes, ano) reports as card total the sum of only the
\* unpaid installments due in that month, and saldo = receitas - gastos -
\* investimentos - card total; immediately after marcar_fatura_paga(mes, ano)
\* it reports card total 0 for that month, and marking leaves the totals of
\* every other month unchanged.
C30_ResumoMensal ==
    [][/\ chamada'.op = "resumo_mensal" =>
             LET r == chamada'.arg
             IN /\ r.cartao = SomaDoMes(cartao, "vencimento_fatura", r.mes, r.ano, TRUE)
                /\ r.receitas = SomaDoMes(receitas, "data", r.mes, r.ano, FALSE)
                /\ r.gastos = SomaDoMes(gastos, "data", r.mes, r.ano, FALSE)
                /\ r.investimentos = SomaDoMes(investimentos, "data", r.mes, r.ano, FALSE)
                /\ r.saldo = FSoma(FSoma(FSoma(r.receitas, FOposto(r.gastos)),
                                         FOposto(r.investimentos)), FOposto(r.cartao))
                /\ (/\ chamada.op = "marcar_fatura_paga"
                    /\ chamada.arg.mes = r.mes
                    /\ chamada.arg.ano = r.ano) => r.cartao = <<0, 0>>
       /\ chamada'.op = "marcar_fatura_paga" =>
             \A m \in MesesFatura :
                 (m[2] # chamada'.arg.mes \/ m[1] # chamada'.arg.ano) =>
                     /\ SomaDoMes(cartao', "vencimento_fatura", m[2], m[1], TRUE)
                           = SomaDoMes(cartao, "vencimento_fatura", m[2], m[1], TRUE)
                     /\ UNCHANGED <<receitas, gastos, investimentos>>]_vars

\* the summary of a month right after its invoice was marked paid, with an
\* unpaid installment in another month and entries in the month
C30_Witness ==
    /\ chamada.op = "resumo_mensal"
    /\ Len(DoMes(cartao, "vencimento_fatura", chamada.arg.mes, chamada.arg.ano)) = 2
    /\ chamada.arg.cartao = <<0, 0>>
    /\ \E j \in 1..Len(cartao) : ~cartao[j].pago
    /\ chamada.arg.receitas # <<0, 0>>
    /\ chamada.arg.gastos # <<0, 0>>

\* the summary of a month with one paid and one unpaid installment
C30_WitnessParcial ==
    /\ chamada.op = "resumo_mensal"
    /\ \E j, k \in 1..Len(cartao) :
          /\ cartao[j].vencimento_fatura = cartao[k].vencimento_fatura
          /\ cartao[j].vencimento_fatura[2] = chamada.arg.mes
          /\ cartao[j].pago
          /\ ~cartao[k].pago
    /\ chamada.arg.cartao # <<0, 0>>

====
